---- MODULE Spec2Model ----
(***************************************************************************)
(* A model of the Shopify taxonomy mapper: the download of the taxonomy    *)
(* file (data-fetcher.ts), the taxonomy index                              *)
(* (taxonomy-loader.ts), the SQLite mapping cache (database.ts), the Nova  *)
(* client with its conversation history (nova-client.ts) and the           *)
(* hierarchical drill-down mapper (hierarchical-mapper.ts, the class       *)
(* declared at lines 272-494, which supersedes the copy at lines 17-254).  *)
(*                                                                         *)
(* Optional values (undefined / null in the source) are sequences of       *)
(* length 0 or 1: None is <<>>, Some(x) is <<x>>.                          *)
(***************************************************************************)
EXTENDS Integers, Sequences, FiniteSets, TLC

VARIABLES
  localFile,      \* data/categories.json, the file ensureTaxonomyData keeps
  data,           \* TaxonomyLoader.data: the parsed snapshot
  categoryIndex,  \* TaxonomyLoader.categoryIndex: id (gid and short form) -> Category
  nameIndex,      \* TaxonomyLoader.nameIndex: lower-cased name / full name -> Category[]
  db,             \* MappingCache.db: "open" or "null"
  rows,           \* the table amazon_shopify_category_mappings, in rowid order
  now,            \* SQLite's CURRENT_TIMESTAMP
  lastOp,         \* the last direct call of the cache API and what it returned
  conversationHistory, \* NovaLiteClient.conversationHistory (one client per mapper)
  pc,             \* per request: where the mapCategory / mapProduct call stands
  input,          \* per request: categoryPath / productTitle
  cachedRow,      \* per request: what getHierarchicalMapping returned
  cur,            \* per request: currentCategoryId
  turnCount,      \* per request: turnCount
  offered,        \* per request: the options of the askForSelection in flight
  sent,           \* per request: the messages handed to client.send
  reply,          \* per request: the output that ended the navigation (<<>> before)
  selected,       \* per request: what askForSelection returned for that output
  result,         \* per request: the MappingResult returned to the caller
  error,          \* per request: the message of the Error thrown
  calls,          \* per request: ConverseCommands sent in this call
  transcript,     \* per request: this navigation's own prompts and answers
  seen,           \* per request: the row stored under the key when it was looked up
  saves,          \* per request: upserts this call executed
  started         \* mapping calls started so far

taxVars == <<localFile, data, categoryIndex, nameIndex>>
cacheVars == <<db, rows, now, lastOp>>
reqVars == <<pc, input, cachedRow, cur, turnCount, offered, sent,
             reply, selected, result, error, calls, transcript, seen, saves, started>>
vars == <<taxVars, cacheVars, conversationHistory, reqVars>>

None == <<>>
Some(x) == <<x>>

(***************************************************************************)
(* Bounds of the model.                                                    *)
(***************************************************************************)
MaxCalls == 2
MaxTurns == 4
MaxClock == 1

\* The mapping calls that may be in flight at once: one through mapCategory and
\* one through mapProduct, whose bodies are the same statements.
Requests == {"mapCategory", "mapProduct"}

(***************************************************************************)
(* Strings.                                                                *)
(***************************************************************************)
GID_PREFIX == "gid://shopify/TaxonomyCategory/"
OTHER_OPTION == "Other (use parent category)"

\* String.prototype.replace(pat, ''): the first occurrence of pat is removed.
StripFirst(s, pat) ==
  LET n == Len(s)
      m == Len(pat)
      at == {i \in 1..(n - m + 1) : SubSeq(s, i, i + m - 1) = pat}
  IN IF at = {} THEN s
     ELSE LET i == CHOOSE j \in at : \A k \in at : j <= k
          IN SubSeq(s, 1, i - 1) \o SubSeq(s, i + m, n)

ShortId(id) == StripFirst(id, GID_PREFIX)

\* String.prototype.toLowerCase, letter by letter.
LowerChar(c) ==
  CASE c = "A" -> "a" [] c = "B" -> "b" [] c = "C" -> "c" [] c = "D" -> "d"
    [] c = "E" -> "e" [] c = "F" -> "f" [] c = "G" -> "g" [] c = "H" -> "h"
    [] c = "I" -> "i" [] c = "J" -> "j" [] c = "K" -> "k" [] c = "L" -> "l"
    [] c = "M" -> "m" [] c = "N" -> "n" [] c = "O" -> "o" [] c = "P" -> "p"
    [] c = "Q" -> "q" [] c = "R" -> "r" [] c = "S" -> "s" [] c = "T" -> "t"
    [] c = "U" -> "u" [] c = "V" -> "v" [] c = "W" -> "w" [] c = "X" -> "x"
    [] c = "Y" -> "y" [] c = "Z" -> "z" [] OTHER -> c

RECURSIVE toLowerCase(_)
toLowerCase(str) ==
  IF str = "" THEN ""
  ELSE LowerChar(SubSeq(str, 1, 1)) \o toLowerCase(SubSeq(str, 2, Len(str)))

\* String.prototype.trim: leading and trailing blanks removed.
RECURSIVE trimStart(_)
trimStart(str) ==
  IF str # "" /\ SubSeq(str, 1, 1) = " " THEN trimStart(SubSeq(str, 2, Len(str)))
  ELSE str

RECURSIVE trimEnd(_)
trimEnd(str) ==
  IF str # "" /\ SubSeq(str, Len(str), Len(str)) = " "
  THEN trimEnd(SubSeq(str, 1, Len(str) - 1))
  ELSE str

trim(str) == trimEnd(trimStart(str))

\* String.prototype.includes / startsWith / endsWith
includes(str, part) ==
  \E i \in 1..(Len(str) - Len(part) + 1) : SubSeq(str, i, i + Len(part) - 1) = part

startsWith(str, part) ==
  Len(part) <= Len(str) /\ SubSeq(str, 1, Len(part)) = part

endsWith(str, part) ==
  Len(part) <= Len(str) /\ SubSeq(str, Len(str) - Len(part) + 1, Len(str)) = part

(***************************************************************************)
(* Taxonomy snapshots (types.ts) the loader may be given.                  *)
(***************************************************************************)
Ref(short, name) == [id |-> GID_PREFIX \o short, name |-> name]

Cat(short, level, name, fullName, parent, kids) ==
  [id |-> GID_PREFIX \o short, level |-> level, name |-> name,
   full_name |-> fullName, parent_id |-> parent, children |-> kids]

\* A well-formed tree of three levels; the vertical Furniture is a childless root.
TreeA ==
  [version |-> "2025-11",
   verticals |-> <<
     [name |-> "Electronics", prefix |-> "el", categories |-> <<
        Cat("el", 0, "Electronics", "Electronics", None,
            <<Ref("el-1", "Computers"), Ref("el-2", "Phones")>>),
        Cat("el-1", 1, "Computers", "Electronics > Computers",
            Some(GID_PREFIX \o "el"), <<>>),
        Cat("el-2", 1, "Phones", "Electronics > Phones",
            Some(GID_PREFIX \o "el"), <<Ref("el-2-1", "Smartphones")>>),
        Cat("el-2-1", 2, "Smartphones", "Electronics > Phones > Smartphones",
            Some(GID_PREFIX \o "el-2"), <<>>) >>],
     [name |-> "Furniture", prefix |-> "fu", categories |-> <<
        Cat("fu", 0, "Furniture", "Furniture", None, <<>>) >>] >>]

\* A snapshot that breaks the tree invariants: a child reference that does not
\* resolve (ap-9), one that leads back to an ancestor (ap-1 -> ap), and a
\* vertical without a root category (Ghost).
TreeB ==
  [version |-> "2026-02",
   verticals |-> <<
     [name |-> "Apparel", prefix |-> "ap", categories |-> <<
        Cat("ap", 0, "Apparel", "Apparel", None,
            <<Ref("ap-1", "Shoes"), Ref("ap-9", "Missing")>>),
        Cat("ap-1", 1, "Shoes", "Apparel > Shoes",
            Some(GID_PREFIX \o "ap"), <<Ref("ap", "Apparel")>>) >>],
     [name |-> "Ghost", prefix |-> "gh", categories |-> <<>>] >>]

Snapshots == {TreeA, TreeB}

\* A snapshot for the lookups of the loader: a child reference that does not
\* resolve between two that do, a name that two categories bear, and a name
\* that ends another one.
TreeC ==
  [version |-> "2026-05",
   verticals |-> <<
     [name |-> "Home", prefix |-> "ho", categories |-> <<
        Cat("ho", 0, "Home", "Home", None,
            <<Ref("ho-1", "Home Decor"), Ref("ho-9", "Gone"), Ref("ho-2", "Decor")>>),
        Cat("ho-1", 1, "Home Decor", "Home > Home Decor",
            Some(GID_PREFIX \o "ho"), <<>>),
        Cat("ho-2", 1, "Decor", "Home > Decor",
            Some(GID_PREFIX \o "ho"), <<Ref("ho-2-1", "Home")>>),
        Cat("ho-2-1", 2, "Home", "Home > Decor > Home",
            Some(GID_PREFIX \o "ho-2"), <<>>) >>] >>]

LoaderSnapshots == Snapshots \cup {TreeC}

\* A snapshot whose root has child references none of which resolves.
TreeD ==
  [version |-> "2026-08",
   verticals |-> <<
     [name |-> "Toys", prefix |-> "to", categories |-> <<
        Cat("to", 0, "Toys", "Toys", None,
            <<Ref("to-8", "Lost"), Ref("to-9", "Gone")>>) >>] >>]

\* A snapshot in which two children of a category bear one name and a third
\* bears the name of the synthetic option.
TreeE ==
  [version |-> "2026-09",
   verticals |-> <<
     [name |-> "Garden", prefix |-> "ga", categories |-> <<
        Cat("ga", 0, "Garden", "Garden", None,
            <<Ref("ga-1", "Tools"), Ref("ga-2", "Tools"),
              Ref("ga-3", OTHER_OPTION)>>),
        Cat("ga-1", 1, "Tools", "Garden > Tools",
            Some(GID_PREFIX \o "ga"), <<Ref("ga-1-1", "Spades")>>),
        Cat("ga-1-1", 2, "Spades", "Garden > Tools > Spades",
            Some(GID_PREFIX \o "ga-1"), <<>>),
        Cat("ga-2", 1, "Tools", "Garden > Tools",
            Some(GID_PREFIX \o "ga"), <<>>),
        Cat("ga-3", 1, OTHER_OPTION, "Garden > " \o OTHER_OPTION,
            Some(GID_PREFIX \o "ga"), <<>>) >>] >>]

OddSnapshots == {TreeD, TreeE}

(***************************************************************************)
(* TaxonomyLoader (taxonomy-loader.ts).                                    *)
(***************************************************************************)
RECURSIVE Flatten(_)
Flatten(seqs) ==
  IF seqs = <<>> THEN <<>> ELSE Head(seqs) \o Flatten(Tail(seqs))

\* getAllCategories: data.verticals.flatMap(v => v.categories)
getAllCategories(d) ==
  Flatten([i \in 1..Len(d.verticals) |-> d.verticals[i].categories])

\* Map.set
MapSet(m, k, v) == [x \in DOMAIN m \cup {k} |-> IF x = k THEN v ELSE m[x]]

EmptyMap == [x \in {} |-> None]

\* buildIndices: every category is indexed under its id and under its short id,
\* on top of whatever the index already holds.
RECURSIVE IndexAll(_, _)
IndexAll(index, cats) ==
  IF cats = <<>> THEN index
  ELSE LET c == Head(cats)
       IN IndexAll(MapSet(MapSet(index, c.id, c), ShortId(c.id), c), Tail(cats))

buildIndices(index, d) == IndexAll(index, getAllCategories(d))

\* Map.get(k) || []
MapGet(m, k) == IF k \in DOMAIN m THEN m[k] ELSE <<>>

\* buildIndices, the name index: every category is pushed to the list under its
\* lower-cased name and, if that is another string, to the list under its
\* lower-cased full name, on top of whatever the index already holds.
RECURSIVE IndexNames(_, _)
IndexNames(index, cats) ==
  IF cats = <<>> THEN index
  ELSE LET c == Head(cats)
           nameLower == toLowerCase(c.name)
           fullNameLower == toLowerCase(c.full_name)
           byName == MapSet(index, nameLower, Append(MapGet(index, nameLower), c))
       IN IndexNames(IF fullNameLower # nameLower
                     THEN MapSet(byName, fullNameLower,
                                 Append(MapGet(byName, fullNameLower), c))
                     ELSE byName,
                     Tail(cats))

buildNameIndex(index, d) == IndexNames(index, getAllCategories(d))

\* getCategory: categoryIndex.get(id), undefined on a miss
getCategory(index, id) == IF id \in DOMAIN index THEN Some(index[id]) ELSE None

\* getVerticals
getVerticals(index, d) ==
  [i \in 1..Len(d.verticals) |->
     [name |-> d.verticals[i].name,
      prefix |-> d.verticals[i].prefix,
      rootCategory |-> getCategory(index, GID_PREFIX \o d.verticals[i].prefix)]]

\* A map over the references that ends at the first one that does not resolve.
RECURSIVE ResolveStop(_, _)
ResolveStop(index, refs) ==
  IF refs = <<>> \/ getCategory(index, Head(refs).id) = None THEN <<>>
  ELSE getCategory(index, Head(refs).id) \o ResolveStop(index, Tail(refs))

\* category.children.map(child => getCategory(child.id)).filter(c => c !== undefined)
RECURSIVE Resolve(_, _)
Resolve(index, refs) ==
  IF refs = <<>> THEN <<>>
  ELSE getCategory(index, Head(refs).id) \o Resolve(index, Tail(refs))

\* getChildren: the child references that resolve, in the order of the list
getChildren(index, id) ==
  LET category == getCategory(index, id)
  IN IF category = None THEN <<>> ELSE Resolve(index, category[1].children)

\* The comparator of results.sort: a negative number iff a is to stand before b
\* (higher score, then deeper level).
Before(a, b) ==
  \/ a.score > b.score
  \/ a.score = b.score /\ a.category.level > b.category.level

\* Array.prototype.sort is stable: an element goes behind every element that it
\* is not to stand before.
RECURSIVE InsertSorted(_, _)
InsertSorted(sorted, e) ==
  IF sorted = <<>> THEN <<e>>
  ELSE IF Before(e, Head(sorted)) THEN <<e>> \o sorted
  ELSE <<Head(sorted)>> \o InsertSorted(Tail(sorted), e)

RECURSIVE SortInto(_, _)
SortInto(sorted, results) ==
  IF results = <<>> THEN sorted
  ELSE SortInto(InsertSorted(sorted, Head(results)), Tail(results))

SortResults(results) == SortInto(<<>>, results)

\* results.slice(0, limit), limit >= 0
Slice(results, limit) ==
  SubSeq(results, 1, IF limit < Len(results) THEN limit ELSE Len(results))

\* search, the exact matches: what the name index holds under the query
ExactMatches(nindex, queryLower) ==
  LET found == MapGet(nindex, queryLower)
  IN [i \in 1..Len(found) |->
        [category |-> found[i], score |-> 100, matchType |-> "exact"]]

\* search, the score of a partial match: each test that holds overwrites the
\* score of the tests before it
PartialScore(nameLower, fullNameLower, queryLower) ==
  LET s0 == 50
      s1 == IF startsWith(nameLower, queryLower) THEN 80 ELSE s0
      s2 == IF includes(fullNameLower, " > " \o queryLower) THEN 70 ELSE s1
  IN IF endsWith(fullNameLower, queryLower) THEN 75 ELSE s2

\* search, the loop over getAllCategories(): a category that contains the query
\* in its name or full name is added unless a result has its id already
RECURSIVE PartialMatches(_, _, _)
PartialMatches(results, cats, queryLower) ==
  IF cats = <<>> THEN results
  ELSE LET category == Head(cats)
           nameLower == toLowerCase(category.name)
           fullNameLower == toLowerCase(category.full_name)
           added == \E i \in 1..Len(results) : results[i].category.id = category.id
       IN IF (includes(nameLower, queryLower) \/ includes(fullNameLower, queryLower))
             /\ ~added
          THEN PartialMatches(
                 Append(results,
                        [category |-> category,
                         score |-> PartialScore(nameLower, fullNameLower, queryLower),
                         matchType |-> "partial"]),
                 Tail(cats), queryLower)
          ELSE PartialMatches(results, Tail(cats), queryLower)

\* search(query, limit)
search(nindex, d, query, limit) ==
  IF query = "" THEN <<>>
  ELSE LET queryLower == trim(toLowerCase(query))
       IN Slice(SortResults(PartialMatches(ExactMatches(nindex, queryLower),
                                           getAllCategories(d), queryLower)),
                limit)

\* The iterations of getDescendants' loop that the model follows; a walk that
\* has not emptied its queue by then is one that does not return.
MaxVisits == 8

\* getDescendants: breadth first from the category, every resolved child pushed
\* to the result and its id to the queue; no set of visited ids is kept.
RECURSIVE Walk(_, _, _, _)
Walk(index, queue, descendants, fuel) ==
  IF queue = <<>> THEN [returned |-> TRUE, value |-> descendants]
  ELSE IF fuel = 0 THEN [returned |-> FALSE, value |-> descendants]
  ELSE LET current == getCategory(index, Head(queue))
       IN IF current = None THEN Walk(index, Tail(queue), descendants, fuel - 1)
          ELSE LET kids == Resolve(index, current[1].children)
               IN Walk(index,
                       Tail(queue) \o [i \in 1..Len(kids) |-> kids[i].id],
                       descendants \o kids, fuel - 1)

getDescendants(index, categoryId) ==
  IF getCategory(index, categoryId) = None THEN [returned |-> TRUE, value |-> <<>>]
  ELSE Walk(index, <<categoryId>>, <<>>, MaxVisits)

\* searchWithinCategory, the score of a descendant (None: no match)
WithinScore(nameLower, fullNameLower, queryLower) ==
  IF nameLower = queryLower \/ fullNameLower = queryLower THEN Some(100)
  ELSE IF includes(nameLower, queryLower) \/ includes(fullNameLower, queryLower)
  THEN LET s1 == IF startsWith(nameLower, queryLower) THEN 80 ELSE 50
       IN Some(IF endsWith(fullNameLower, queryLower) THEN 75 ELSE s1)
  ELSE None

RECURSIVE WithinMatches(_, _)
WithinMatches(cats, queryLower) ==
  IF cats = <<>> THEN <<>>
  ELSE LET category == Head(cats)
           score == WithinScore(toLowerCase(category.name),
                                toLowerCase(category.full_name), queryLower)
       IN (IF score = None THEN <<>>
           ELSE <<[category |-> category, score |-> score[1],
                   matchType |-> IF score[1] = 100 THEN "exact" ELSE "partial"]>>)
          \o WithinMatches(Tail(cats), queryLower)

\* searchWithinCategory(parentId, query, limit)
searchWithinCategory(index, parentId, query, limit) ==
  IF getCategory(index, parentId) = None THEN [returned |-> TRUE, value |-> <<>>]
  ELSE LET descendants == getDescendants(index, parentId)
       IN [returned |-> descendants.returned,
           value |-> Slice(SortResults(WithinMatches(descendants.value,
                                                     trim(toLowerCase(query)))),
                           limit)]

\* find(x => x.name === name): the first element of that name, or undefined
FindByName(s, name) ==
  LET hits == {i \in 1..Len(s) : s[i].name = name}
  IN IF hits = {} THEN None
     ELSE Some(s[CHOOSE i \in hits : \A j \in hits : i <= j])

(***************************************************************************)
(* DataFetcher (data-fetcher.ts).  The local file is                       *)
(*   [exists, json, version]: whether it exists, whether it reads and      *)
(*   parses as JSON, and the version field of the parsed text;             *)
(* what a fetch of the remote file gives is                                *)
(*   [kind |-> "unreachable"]  fetch rejects (network, the abort timer)    *)
(*   [kind |-> "status"]       a response that is not ok                   *)
(*   [kind |-> "invalid"]      a body that is not JSON                     *)
(*   [kind |-> "noversion"]    JSON without a version                      *)
(*   [kind |-> "ok", version |-> v]                                        *)
(***************************************************************************)
NoFile == [exists |-> FALSE, json |-> FALSE, version |-> None]
CorruptFile == [exists |-> TRUE, json |-> FALSE, version |-> None]
UnversionedFile == [exists |-> TRUE, json |-> TRUE, version |-> None]
FileOf(v) == [exists |-> TRUE, json |-> TRUE, version |-> Some(v)]

Versions == {d.version : d \in LoaderSnapshots}

LocalFiles == {NoFile, CorruptFile, UnversionedFile} \cup {FileOf(v) : v \in Versions}

Fetches ==
  {[kind |-> k, version |-> None] : k \in {"unreachable", "status", "invalid", "noversion"}}
    \cup {[kind |-> "ok", version |-> Some(v)] : v \in Versions}

\* getRemoteVersion: throws unless the response is ok, parses and has a version
getRemoteVersion(fetched) ==
  IF fetched.kind = "ok" THEN [threw |-> FALSE, version |-> fetched.version]
  ELSE [threw |-> TRUE, version |-> None]

\* downloadTaxonomyData: throws unless the response is ok, parses and has a
\* version; only then is the text written to the local file
downloadTaxonomyData(file, fetched) ==
  IF fetched.kind = "ok" THEN [threw |-> FALSE, file |-> FileOf(fetched.version[1])]
  ELSE [threw |-> TRUE, file |-> file]

\* What ensureTaxonomyData has read of the local file: null unless the file
\* exists, reads and parses; then its version field.
LocalVersion(file) == IF file.exists /\ file.json THEN file.version ELSE None

\* An ensureTaxonomyData without the fallback: what the remote steps throw is
\* thrown on.
ensureTaxonomyDataStrict(file, remote, download) ==
  LET localVersion == LocalVersion(file)
      checked == getRemoteVersion(remote)
      loaded == downloadTaxonomyData(file, download)
  IN IF checked.threw
     THEN [threw |-> TRUE, downloaded |-> FALSE, file |-> file]
     ELSE IF localVersion = None \/ localVersion # checked.version
     THEN [threw |-> loaded.threw, downloaded |-> TRUE, file |-> loaded.file]
     ELSE [threw |-> FALSE, downloaded |-> FALSE, file |-> file]

\* ensureTaxonomyData: the remote version is asked for; the file is downloaded
\* if there is no local version or it differs; when either step throws, the
\* call returns if the local file exists and has a version, and throws if not.
ensureTaxonomyData(file, remote, download) ==
  LET localVersion == LocalVersion(file)
      checked == getRemoteVersion(remote)
      loaded == downloadTaxonomyData(file, download)
      fallback == [threw |-> ~(file.exists /\ localVersion # None),
                   downloaded |-> ~checked.threw, file |-> file]
  IN IF checked.threw THEN fallback
     ELSE IF localVersion = None \/ localVersion # checked.version
     THEN IF loaded.threw THEN fallback
          ELSE [threw |-> FALSE, downloaded |-> TRUE, file |-> loaded.file]
     ELSE [threw |-> FALSE, downloaded |-> FALSE, file |-> file]

(***************************************************************************)
(* MappingCache (database.ts).  A row of the table is a record             *)
(*   [amazon_category, shopify_category_id, shopify_category_gid,          *)
(*    shopify_full_name, confidence, created_by, created_at, updated_at]   *)
(* and a CategoryMapping handed to saveMapping is a row without the two    *)
(* timestamps.                                                             *)
(***************************************************************************)
\* The input strings of the mapping calls, which are the keys of the cache.
Inputs == {"tv", "TV"}

\* Field values for the direct callers of saveMapping.
SampleValues ==
  { [shopify_category_id |-> "el-1", shopify_category_gid |-> GID_PREFIX \o "el-1",
     shopify_full_name |-> "Electronics > Computers", confidence |-> "high",
     created_by |-> "llm"],
    [shopify_category_id |-> "fu", shopify_category_gid |-> GID_PREFIX \o "fu",
     shopify_full_name |-> "Furniture", confidence |-> "medium",
     created_by |-> "manual"],
    [shopify_category_id |-> "ap-1", shopify_category_gid |-> GID_PREFIX \o "ap-1",
     shopify_full_name |-> "Apparel > Shoes", confidence |-> "low",
     created_by |-> "manual"] }

Mapping(key, v) ==
  [amazon_category |-> key, shopify_category_id |-> v.shopify_category_id,
   shopify_category_gid |-> v.shopify_category_gid,
   shopify_full_name |-> v.shopify_full_name, confidence |-> v.confidence,
   created_by |-> v.created_by]

Mappings == {Mapping(k, v) : k \in Inputs, v \in SampleValues}

\* A key comparison that ignores letter case and surrounding blanks.
RowsOfNormalized(table, key) ==
  {i \in 1..Len(table) :
     trim(toLowerCase(table[i].amazon_category)) = trim(toLowerCase(key))}

\* The rows stored under a key (PRIMARY KEY amazon_category: the exact string).
RowsOf(table, key) == {i \in 1..Len(table) : table[i].amazon_category = key}

\* SELECT amazon_category, ..., created_by, created_at ... WHERE amazon_category = ?
\* LIMIT 1, as query.get returns it: the first such row without updated_at, or null.
SelectMapping(table, key) ==
  LET at == RowsOf(table, key)
  IN IF at = {} THEN None
     ELSE LET row == table[CHOOSE i \in at : \A j \in at : i <= j]
          IN Some([amazon_category |-> row.amazon_category,
                   shopify_category_id |-> row.shopify_category_id,
                   shopify_category_gid |-> row.shopify_category_gid,
                   shopify_full_name |-> row.shopify_full_name,
                   confidence |-> row.confidence,
                   created_by |-> row.created_by,
                   created_at |-> row.created_at])

\* A variant of the upsert that replaces the row (INSERT OR REPLACE): the old
\* row is deleted and a new one, with a new created_at, is inserted.
UpsertReplace(table, m, t) ==
  LET kept == SelectSeq(table, LAMBDA row : row.amazon_category # m.amazon_category)
  IN Append(kept,
       [amazon_category |-> m.amazon_category,
        shopify_category_id |-> m.shopify_category_id,
        shopify_category_gid |-> m.shopify_category_gid,
        shopify_full_name |-> m.shopify_full_name,
        confidence |-> m.confidence,
        created_by |-> m.created_by,
        created_at |-> t, updated_at |-> t])

\* A variant of the upsert that keeps the row a key already has (INSERT OR
\* IGNORE): the first write wins.
UpsertIgnore(table, m, t) ==
  IF RowsOf(table, m.amazon_category) # {} THEN table
  ELSE Append(table,
         [amazon_category |-> m.amazon_category,
          shopify_category_id |-> m.shopify_category_id,
          shopify_category_gid |-> m.shopify_category_gid,
          shopify_full_name |-> m.shopify_full_name,
          confidence |-> m.confidence,
          created_by |-> m.created_by,
          created_at |-> t, updated_at |-> t])

\* INSERT INTO ... VALUES (?, ?, ?, ?, ?, ?) ON CONFLICT (amazon_category) DO UPDATE
\* SET shopify_category_id, shopify_category_gid, shopify_full_name, confidence
\* = excluded.*, updated_at = CURRENT_TIMESTAMP.  created_by and created_at are
\* not in the SET list.
Upsert(table, m, t) ==
  LET at == RowsOf(table, m.amazon_category)
  IN IF at = {}
     THEN Append(table,
            [amazon_category |-> m.amazon_category,
             shopify_category_id |-> m.shopify_category_id,
             shopify_category_gid |-> m.shopify_category_gid,
             shopify_full_name |-> m.shopify_full_name,
             confidence |-> m.confidence,
             created_by |-> m.created_by,
             created_at |-> t, updated_at |-> t])
     ELSE [i \in 1..Len(table) |->
             IF i \in at
             THEN [table[i] EXCEPT !.shopify_category_id = m.shopify_category_id,
                                   !.shopify_category_gid = m.shopify_category_gid,
                                   !.shopify_full_name = m.shopify_full_name,
                                   !.confidence = m.confidence,
                                   !.updated_at = t]
             ELSE table[i]]

\* getMapping: throws without a connection; a query that fails is logged and
\* answered with null.
getMapping(conn, table, key, fault) ==
  IF conn = "null" THEN [threw |-> TRUE, value |-> None]
  ELSE IF fault THEN [threw |-> FALSE, value |-> None]
  ELSE [threw |-> FALSE, value |-> SelectMapping(table, key)]

\* A saveMapping without the catch: a query that fails is thrown to the caller.
saveMappingRethrow(conn, table, m, t, fault) ==
  IF conn = "null" \/ fault THEN [threw |-> TRUE, ok |-> FALSE, table |-> table]
  ELSE [threw |-> FALSE, ok |-> TRUE, table |-> Upsert(table, m, t)]

\* A saveMapping that deletes the key's row before it inserts: a query that
\* fails leaves the key without a row.
saveMappingDeleteFirst(conn, table, m, t, fault) ==
  IF conn = "null" THEN [threw |-> TRUE, ok |-> FALSE, table |-> table]
  ELSE IF fault
  THEN [threw |-> FALSE, ok |-> FALSE,
        table |-> SelectSeq(table, LAMBDA row : row.amazon_category # m.amazon_category)]
  ELSE [threw |-> FALSE, ok |-> TRUE, table |-> Upsert(table, m, t)]

\* saveMapping: throws without a connection; a query that fails is logged and
\* answered with false, the table unchanged.
saveMapping(conn, table, m, t, fault) ==
  IF conn = "null" THEN [threw |-> TRUE, ok |-> FALSE, table |-> table]
  ELSE IF fault THEN [threw |-> FALSE, ok |-> FALSE, table |-> table]
  ELSE [threw |-> FALSE, ok |-> TRUE, table |-> Upsert(table, m, t)]

\* deleteMapping: DELETE FROM ... WHERE amazon_category = ?
deleteMapping(conn, table, key, fault) ==
  IF conn = "null" THEN [threw |-> TRUE, ok |-> FALSE, table |-> table]
  ELSE IF fault THEN [threw |-> FALSE, ok |-> FALSE, table |-> table]
  ELSE [threw |-> FALSE, ok |-> TRUE,
        table |-> SelectSeq(table, LAMBDA row : row.amazon_category # key)]

\* A simplified format that takes the node id from the gid column.
getHierarchicalMappingGid(conn, table, key, fault) ==
  LET got == getMapping(conn, table, key, fault)
  IN IF got.value = None THEN got
     ELSE [threw |-> FALSE,
           value |-> Some([node_id |-> got.value[1].shopify_category_gid,
                           confidence |-> got.value[1].confidence,
                           full_name |-> got.value[1].shopify_full_name])]

\* getHierarchicalMapping: the simplified format of getMapping's row
getHierarchicalMapping(conn, table, key, fault) ==
  LET got == getMapping(conn, table, key, fault)
  IN IF got.value = None THEN got
     ELSE [threw |-> FALSE,
           value |-> Some([node_id |-> got.value[1].shopify_category_id,
                           confidence |-> got.value[1].confidence,
                           full_name |-> got.value[1].shopify_full_name])]

\* saveHierarchicalMapping: the gid is built from the node id, created_by is 'llm'
saveHierarchicalMapping(conn, table, key, nodeId, confidence, fullName, t, fault) ==
  saveMapping(conn, table,
    [amazon_category |-> key, shopify_category_id |-> nodeId,
     shopify_category_gid |-> GID_PREFIX \o nodeId,
     shopify_full_name |-> fullName, confidence |-> confidence,
     created_by |-> "llm"], t, fault)

(***************************************************************************)
(* NovaLiteClient (nova-client.ts).  The output message of the model is    *)
(* None or Some([role |-> "assistant", content |-> text]); a text is       *)
(*   [json |-> "none",   category |-> None]       not JSON (or empty)      *)
(*   [json |-> "scalar", category |-> None]       JSON, but not an object  *)
(*   [json |-> "object", category |-> None]       an object without the key*)
(*   [json |-> "object", category |-> Some(name)] {"category": name}       *)
(***************************************************************************)
UNLISTED == "Unlisted"

\* The names the model may answer with when `options` were offered: each of
\* them, the synthetic option, and a name that is on no list.
AnswerNames(options) ==
  {options[i].name : i \in 1..Len(options)} \cup {OTHER_OPTION, UNLISTED}

OracleTexts(options) ==
  {[json |-> "none", category |-> None],
   [json |-> "scalar", category |-> None],
   [json |-> "object", category |-> None]}
    \cup {[json |-> "object", category |-> Some(n)] : n \in AnswerNames(options)}

\* response.output?.message
OracleOutputs(options) ==
  {None} \cup {Some([role |-> "assistant", content |-> t]) : t \in OracleTexts(options)}

\* conversationHistory.push({role: 'user', content: [{text: userMessage}]})
PushUser(history, userMessage) ==
  Append(history, [role |-> "user", content |-> userMessage])

\* if (outputMessage) conversationHistory.push(outputMessage)
PushOutput(history, out) == history \o out

\* A reset that leaves the history as it is.
resetConversationKeep == conversationHistory

\* resetConversation
resetConversation == <<>>

\* JSON.parse(content.text) inside try/catch: undefined when the text is not JSON
ParseStructured(text) ==
  IF text.json = "none" THEN None
  ELSE Some([type |-> text.json, category |-> text.category])

\* The NovaResponse converse builds from the output message (a schema was given).
NovaResponse(out) ==
  IF out = None THEN [text |-> None, structuredOutput |-> None]
  ELSE [text |-> Some(out[1].content),
        structuredOutput |-> ParseStructured(out[1].content)]

(***************************************************************************)
(* HierarchicalMapper (hierarchical-mapper.ts, lines 272-494).             *)
(***************************************************************************)
\* The prompt askForSelection builds: the query, the numbered options with their
\* leaf marks, and the level description.
Prompt(query, options, levelDescription) ==
  [query |-> query, options |-> options, level |-> levelDescription]

OptionNames(options) == {options[i].name : i \in 1..Len(options)}

\* A lenient port: a category that is not an option is answered with the first
\* option.
askForSelectionFirst(options, response) ==
  IF response.structuredOutput = None
  THEN [ok |-> FALSE, value |-> "", error |-> "No structured response received from Nova"]
  ELSE IF response.structuredOutput[1].type # "object"
  THEN [ok |-> FALSE, value |-> "", error |-> "TypeError"]
  ELSE IF response.structuredOutput[1].category = None
  THEN [ok |-> FALSE, value |-> "", error |-> "No structured response received from Nova"]
  ELSE IF response.structuredOutput[1].category[1] \in OptionNames(options)
  THEN [ok |-> TRUE, value |-> response.structuredOutput[1].category[1], error |-> ""]
  ELSE [ok |-> TRUE, value |-> options[1].name, error |-> ""]

\* askForSelection after converse returned: the category of the structured
\* output, as it is; the options are used for the schema and the prompt only.
askForSelection(options, response) ==
  IF response.structuredOutput = None
  THEN [ok |-> FALSE, value |-> "", error |-> "No structured response received from Nova"]
  ELSE IF response.structuredOutput[1].type # "object"
  THEN [ok |-> FALSE, value |-> "", error |-> "TypeError"]
  ELSE IF response.structuredOutput[1].category = None
  THEN [ok |-> FALSE, value |-> "", error |-> "No structured response received from Nova"]
  ELSE [ok |-> TRUE, value |-> response.structuredOutput[1].category[1], error |-> ""]

\* verticalNames.map(name => ({name, isLeaf: false}))
VerticalOptions(index, d) ==
  LET verticals == getVerticals(index, d)
  IN [i \in 1..Len(verticals) |-> [name |-> verticals[i].name, isLeaf |-> FALSE]]

\* An option list that puts the "Other (use parent category)" option first.
ChildOptionsOtherFirst(index, id) ==
  LET children == getChildren(index, id)
  IN <<[name |-> OTHER_OPTION, isLeaf |-> TRUE]>>
       \o [i \in 1..Len(children) |->
             [name |-> children[i].name, isLeaf |-> Len(children[i].children) = 0]]

\* children.map(c => ({name, isLeaf: c.children.length === 0})) and the pushed
\* "Other (use parent category)" option
ChildOptions(index, id) ==
  LET children == getChildren(index, id)
  IN Append([i \in 1..Len(children) |->
               [name |-> children[i].name, isLeaf |-> Len(children[i].children) = 0]],
            [name |-> OTHER_OPTION, isLeaf |-> TRUE])

\* A leaf test that looks for a missing list: the list is never missing.
IsLeafUndefined(category) == FALSE

\* category.children.length === 0
IsLeaf(category) == Len(category.children) = 0

\* A leaf result that reports the leaf's level for the turn count.
LeafResultLevel(category, turns) ==
  [node_id |-> ShortId(category.id), confidence |-> "high",
   reasoning |-> "Reached leaf category at level " \o ToString(category.level),
   full_name |-> category.full_name, cached |-> FALSE, turns |-> Some(category.level)]

\* The result returned at a leaf.
LeafResult(category, turns) ==
  [node_id |-> ShortId(category.id), confidence |-> "high",
   reasoning |-> "Reached leaf category at level " \o ToString(category.level),
   full_name |-> category.full_name, cached |-> FALSE, turns |-> Some(turns)]

\* A fallback that returns the first child instead of the parent.
ParentResultFirstChild(category, turns) ==
  [node_id |-> ShortId(category.children[1].id), confidence |-> "medium",
   reasoning |-> "Used parent category \"" \o category.name
                   \o "\" - subcategories too specific",
   full_name |-> category.full_name \o " > " \o category.children[1].name,
   cached |-> FALSE, turns |-> Some(turns)]

\* A fallback that rates its result "low".
ParentResultLow(category, turns) ==
  [node_id |-> ShortId(category.id), confidence |-> "low",
   reasoning |-> "Used parent category \"" \o category.name
                   \o "\" - subcategories too specific",
   full_name |-> category.full_name, cached |-> FALSE, turns |-> Some(turns)]

\* The result returned when "Other (use parent category)" was selected.
ParentResult(category, turns) ==
  [node_id |-> ShortId(category.id), confidence |-> "medium",
   reasoning |-> "Used parent category \"" \o category.name
                   \o "\" - subcategories too specific",
   full_name |-> category.full_name, cached |-> FALSE, turns |-> Some(turns)]

\* { ...cached, cached: true, reasoning: '' }: no turns
CachedResult(cached) ==
  [node_id |-> cached.node_id, confidence |-> cached.confidence, reasoning |-> "",
   full_name |-> cached.full_name, cached |-> TRUE, turns |-> None]

\* A walk that stays where it is when a child was selected.
AdvanceStay(current, child) == current

\* A walk that goes on to the first child of the selected child, if it has one.
AdvanceSkipLevel(current, child) ==
  IF Len(child.children) = 0 THEN child.id ELSE child.children[1].id

\* currentCategoryId = child.id
Advance(current, child) == child.id

\* What performGuidedNavigation does next:
\*   kind "ask":    another askForSelection, turn `turns`, over `options`
\*   kind "result": it returns `result`
\*   kind "error":  it throws Error(`error`)
NavAsk(id, turns, options) ==
  [kind |-> "ask", cur |-> Some(id), turns |-> turns, options |-> options,
   result |-> None, error |-> ""]
NavResult(id, turns, res) ==
  [kind |-> "result", cur |-> Some(id), turns |-> turns, options |-> <<>>,
   result |-> Some(res), error |-> ""]
NavError(current, turns, message) ==
  [kind |-> "error", cur |-> current, turns |-> turns, options |-> <<>>,
   result |-> None, error |-> message]

\* The head of the loop "while (currentCategoryId)": an unresolved id breaks out
\* of the loop to the final throw, a leaf is returned, anything else is asked about.
LoopTop(index, id, turns) ==
  LET category == getCategory(index, id)
  IN IF category = None
     THEN NavError(Some(id), turns, "Navigation ended without reaching a leaf category")
     ELSE IF IsLeaf(category[1])
     THEN NavResult(id, turns, LeafResult(category[1], turns))
     ELSE NavAsk(id, turns + 1, ChildOptions(index, id))

\* A navigator that goes on from the first vertical's root when the selected
\* vertical has none.
AfterVerticalSkip(index, d, turns, sel) ==
  LET verticals == getVerticals(index, d)
      vertical == FindByName(verticals, sel)
  IN IF vertical = None THEN NavError(None, turns, "Could not find vertical: " \o sel)
     ELSE IF vertical[1].rootCategory = None
     THEN IF verticals[1].rootCategory = None
          THEN NavError(None, turns, "Could not find vertical: " \o sel)
          ELSE LoopTop(index, verticals[1].rootCategory[1].id, turns)
     ELSE LoopTop(index, vertical[1].rootCategory[1].id, turns)

\* Turn 1 answered: verticals.find(v => v.name === selectedVertical)
AfterVertical(index, d, turns, sel) ==
  LET vertical == FindByName(getVerticals(index, d), sel)
  IN IF vertical = None \/ vertical[1].rootCategory = None
     THEN NavError(None, turns, "Could not find vertical: " \o sel)
     ELSE LoopTop(index, vertical[1].rootCategory[1].id, turns)

\* A navigator that asks again when the selected child is not found.
AfterChildRetry(index, id, turns, sel) ==
  LET category == getCategory(index, id)[1]
      child == FindByName(getChildren(index, id), sel)
  IN IF sel = OTHER_OPTION
     THEN NavResult(id, turns, ParentResult(category, turns))
     ELSE IF child = None
     THEN NavAsk(id, turns + 1, ChildOptions(index, id))
     ELSE LoopTop(index, Advance(id, child[1]), turns)

\* A navigator that settles for the current category when the selected child
\* is not found.
AfterChildFallback(index, id, turns, sel) ==
  LET category == getCategory(index, id)[1]
      child == FindByName(getChildren(index, id), sel)
  IN IF sel = OTHER_OPTION \/ child = None
     THEN NavResult(id, turns, ParentResult(category, turns))
     ELSE LoopTop(index, Advance(id, child[1]), turns)

\* Turn k >= 2 answered: the synthetic option ends the walk at the current
\* category; otherwise children.find(c => c.name === selectedChild)
AfterChild(index, id, turns, sel) ==
  LET category == getCategory(index, id)[1]
      child == FindByName(getChildren(index, id), sel)
  IN IF sel = OTHER_OPTION
     THEN NavResult(id, turns, ParentResult(category, turns))
     ELSE IF child = None
     THEN NavError(Some(id), turns, "Could not find child category: \"" \o sel \o "\"")
     ELSE LoopTop(index, Advance(id, child[1]), turns)

AfterSelection(index, d, current, turns, sel) ==
  IF current = None THEN AfterVertical(index, d, turns, sel)
  ELSE AfterChild(index, current[1], turns, sel)

(***************************************************************************)
(* The initial state: server.ts has loaded the snapshot into a new         *)
(* TaxonomyLoader, has connected the cache (or logged that it could not,   *)
(* and gone on without a connection) and has built the mapper.             *)
(***************************************************************************)
NoOp == [op |-> "none", key |-> "", mapping |-> None, threw |-> FALSE,
         ok |-> FALSE, value |-> None]

Init ==
  /\ data \in Snapshots
  /\ localFile = FileOf(data.version)
  /\ categoryIndex = buildIndices(EmptyMap, data)
  /\ nameIndex = buildNameIndex(EmptyMap, data)
  /\ db \in {"open", "null"}
  /\ rows = <<>>
  /\ now = 0
  /\ lastOp = NoOp
  /\ conversationHistory = <<>>
  /\ pc = [r \in Requests |-> "idle"]
  /\ input = [r \in Requests |-> ""]
  /\ cachedRow = [r \in Requests |-> None]
  /\ cur = [r \in Requests |-> None]
  /\ turnCount = [r \in Requests |-> 0]
  /\ offered = [r \in Requests |-> <<>>]
  /\ sent = [r \in Requests |-> <<>>]
  /\ reply = [r \in Requests |-> <<>>]
  /\ selected = [r \in Requests |-> None]
  /\ result = [r \in Requests |-> None]
  /\ error = [r \in Requests |-> ""]
  /\ calls = [r \in Requests |-> 0]
  /\ transcript = [r \in Requests |-> <<>>]
  /\ seen = [r \in Requests |-> None]
  /\ saves = [r \in Requests |-> 0]
  /\ started = 0

(***************************************************************************)
(* mapCategory / mapProduct, one action per stretch between two requests   *)
(* to Bedrock.  bun:sqlite runs its queries synchronously, so the awaits   *)
(* on the cache resolve without the call waiting for anything: the lookup  *)
(* belongs to the stretch that sends turn 1, the upsert and the return to  *)
(* the stretch that ends the navigation.                                   *)
(***************************************************************************)
\* A cache key that carries the name of the entry point.
CacheKeyPerMethod(r, s) == r \o ":" \o s

\* The key an entry point hands to getHierarchicalMapping and to
\* saveHierarchicalMapping: its argument (categoryPath, productTitle) as it is.
CacheKey(r, s) == s

\* The call begins.  getHierarchicalMapping runs its query: without a
\* connection it throws; a hit is returned; on a miss
\* performGuidedNavigation resets the conversation and sends turn 1.
MapStart(r, s, fault) ==
  /\ pc[r] \in {"idle", "done", "failed"}
  /\ started < MaxCalls
  /\ started' = started + 1
  /\ input' = [input EXCEPT ![r] = s]
  /\ seen' = [seen EXCEPT ![r] = SelectMapping(rows, s)]
  /\ cur' = [cur EXCEPT ![r] = None]
  /\ reply' = [reply EXCEPT ![r] = <<>>]
  /\ selected' = [selected EXCEPT ![r] = None]
  /\ saves' = [saves EXCEPT ![r] = 0]
  /\ LET got == getHierarchicalMapping(db, rows, CacheKey(r, s), fault)
         options == VerticalOptions(categoryIndex, data)
         history == PushUser(resetConversation,
                             Prompt(s, options, "top-level category"))
         miss == ~got.threw /\ got.value = None
     IN /\ cachedRow' = [cachedRow EXCEPT ![r] = got.value]
        /\ pc' = [pc EXCEPT ![r] = IF got.threw THEN "failed"
                                   ELSE IF miss THEN "awaitOracle" ELSE "done"]
        /\ error' = [error EXCEPT ![r] =
                       IF got.threw THEN "Database not connected" ELSE ""]
        /\ result' = [result EXCEPT ![r] =
                        IF got.threw \/ miss THEN None
                        ELSE Some(CachedResult(got.value[1]))]
        /\ conversationHistory' = IF miss THEN history ELSE conversationHistory
        /\ turnCount' = [turnCount EXCEPT ![r] = IF miss THEN 1 ELSE 0]
        /\ offered' = [offered EXCEPT ![r] = IF miss THEN options ELSE <<>>]
        /\ sent' = [sent EXCEPT ![r] = IF miss THEN history ELSE <<>>]
        /\ calls' = [calls EXCEPT ![r] = IF miss THEN 1 ELSE 0]
        /\ transcript' = [transcript EXCEPT ![r] = IF miss THEN history ELSE <<>>]
  /\ UNCHANGED <<taxVars, cacheVars>>

\* client.send resolves with the output `out`: converse pushes it to the history,
\* askForSelection extracts the selection, and the navigation goes on to its
\* next askForSelection, to an error, or to its result, which mapCategory /
\* mapProduct hands to saveHierarchicalMapping (whose boolean it does not look
\* at) and returns.
OracleReply(r, out, fault) ==
  /\ pc[r] = "awaitOracle"
  /\ LET history == PushOutput(conversationHistory, out)
         sel == askForSelection(offered[r], NovaResponse(out))
         nav == IF sel.ok
                THEN AfterSelection(categoryIndex, data, cur[r], turnCount[r], sel.value)
                ELSE NavError(cur[r], turnCount[r], sel.error)
         message == [role |-> "user",
                     content |-> Prompt(input[r], nav.options, "child category")]
     IN /\ nav.kind = "ask" => nav.turns <= MaxTurns
        /\ nav.kind # "result" => ~fault
        /\ reply' = [reply EXCEPT ![r] = IF nav.kind = "ask" THEN <<>> ELSE <<out>>]
        /\ selected' = [selected EXCEPT ![r] =
                          IF sel.ok /\ nav.kind # "ask" THEN Some(sel.value) ELSE None]
        /\ cur' = [cur EXCEPT ![r] = nav.cur]
        /\ turnCount' = [turnCount EXCEPT ![r] = nav.turns]
        /\ CASE nav.kind = "ask" ->
                /\ pc' = [pc EXCEPT ![r] = "awaitOracle"]
                /\ conversationHistory' = Append(history, message)
                /\ offered' = [offered EXCEPT ![r] = nav.options]
                /\ sent' = [sent EXCEPT ![r] = Append(history, message)]
                /\ calls' = [calls EXCEPT ![r] = @ + 1]
                /\ transcript' = [transcript EXCEPT ![r] = Append(@ \o out, message)]
                /\ UNCHANGED <<result, error, rows, saves>>
             [] nav.kind = "error" ->
                /\ pc' = [pc EXCEPT ![r] = "failed"]
                /\ conversationHistory' = history
                /\ transcript' = [transcript EXCEPT ![r] = @ \o out]
                /\ error' = [error EXCEPT ![r] = nav.error]
                /\ UNCHANGED <<offered, sent, calls, result, rows, saves>>
             [] nav.kind = "result" ->
                LET res == nav.result[1]
                    saved == saveHierarchicalMapping(db, rows, CacheKey(r, input[r]), res.node_id,
                               res.confidence, res.full_name, now, fault)
                IN /\ pc' = [pc EXCEPT ![r] = IF saved.threw THEN "failed" ELSE "done"]
                   /\ conversationHistory' = history
                   /\ transcript' = [transcript EXCEPT ![r] = @ \o out]
                   /\ rows' = saved.table
                   /\ saves' = [saves EXCEPT ![r] = IF saved.ok THEN @ + 1 ELSE @]
                   /\ result' = [result EXCEPT ![r] =
                                   IF saved.threw THEN None ELSE nav.result]
                   /\ error' = [error EXCEPT ![r] =
                                  IF saved.threw THEN "Database not connected" ELSE ""]
                   /\ UNCHANGED <<offered, sent, calls>>
  /\ UNCHANGED <<taxVars, db, now, lastOp, input, cachedRow, seen, started>>

\* client.send rejects (network, throttling): converse throws, the call fails.
OracleFail(r) ==
  /\ pc[r] = "awaitOracle"
  /\ pc' = [pc EXCEPT ![r] = "failed"]
  /\ error' = [error EXCEPT ![r] = "Bedrock request failed"]
  /\ UNCHANGED <<taxVars, cacheVars, conversationHistory, input, cachedRow, cur,
                 turnCount, offered, sent, reply, selected, result, calls, transcript,
                 seen, saves, started>>

\* A second passes on SQLite's clock.
Tick ==
  /\ now < MaxClock
  /\ now' = now + 1
  /\ UNCHANGED <<taxVars, db, rows, lastOp, conversationHistory, reqVars>>

(***************************************************************************)
(* Direct calls of the cache API.                                          *)
(***************************************************************************)
CacheSave(m, fault) ==
  /\ LET saved == saveMapping(db, rows, m, now, fault)
     IN /\ rows' = saved.table
        /\ lastOp' = [op |-> "saveMapping", key |-> m.amazon_category,
                      mapping |-> Some(m), threw |-> saved.threw, ok |-> saved.ok,
                      value |-> None]
  /\ UNCHANGED <<taxVars, db, now, conversationHistory, reqVars>>

CacheGet(key, fault) ==
  /\ LET got == getMapping(db, rows, key, fault)
     IN lastOp' = [op |-> "getMapping", key |-> key, mapping |-> None,
                   threw |-> got.threw, ok |-> ~got.threw /\ ~fault, value |-> got.value]
  /\ UNCHANGED <<taxVars, db, rows, now, conversationHistory, reqVars>>

CacheDelete(key, fault) ==
  /\ LET gone == deleteMapping(db, rows, key, fault)
     IN /\ rows' = gone.table
        /\ lastOp' = [op |-> "deleteMapping", key |-> key, mapping |-> None,
                      threw |-> gone.threw, ok |-> gone.ok, value |-> None]
  /\ UNCHANGED <<taxVars, db, now, conversationHistory, reqVars>>

Next ==
  \/ \E r \in Requests, s \in Inputs, fault \in BOOLEAN : MapStart(r, s, fault)
  \/ \E r \in Requests, fault \in BOOLEAN :
       \E out \in OracleOutputs(offered[r]) : OracleReply(r, out, fault)
  \/ \E r \in Requests : OracleFail(r)

Spec == Init /\ [][Next]_vars

CacheNext ==
  \/ \E m \in Mappings, fault \in BOOLEAN : CacheSave(m, fault)
  \/ \E key \in Inputs, fault \in BOOLEAN : CacheGet(key, fault)
  \/ \E key \in Inputs, fault \in BOOLEAN : CacheDelete(key, fault)
  \/ Tick

CacheSpec == Init /\ [][CacheNext]_vars

(***************************************************************************)
(* Mapping calls, one after the other, for input strings that differ in   *)
(* letter case or in surrounding blanks, on a server started with the      *)
(* database file an earlier run left behind (connect opens the file and    *)
(* creates the table only if it does not exist).                           *)
(***************************************************************************)
Keys == {"tv", "TV", " tv", "tv "}

KeyInit ==
  /\ data = TreeA
  /\ localFile = FileOf(data.version)
  /\ categoryIndex = buildIndices(EmptyMap, data)
  /\ nameIndex = buildNameIndex(EmptyMap, data)
  /\ db = "open"
  /\ rows \in {<<>>} \cup {Upsert(<<>>, Mapping("tv", v), 0) : v \in SampleValues}
  /\ now = 0
  /\ lastOp = NoOp
  /\ conversationHistory = <<>>
  /\ pc = [r \in Requests |-> "idle"]
  /\ input = [r \in Requests |-> ""]
  /\ cachedRow = [r \in Requests |-> None]
  /\ cur = [r \in Requests |-> None]
  /\ turnCount = [r \in Requests |-> 0]
  /\ offered = [r \in Requests |-> <<>>]
  /\ sent = [r \in Requests |-> <<>>]
  /\ reply = [r \in Requests |-> <<>>]
  /\ selected = [r \in Requests |-> None]
  /\ result = [r \in Requests |-> None]
  /\ error = [r \in Requests |-> ""]
  /\ calls = [r \in Requests |-> 0]
  /\ transcript = [r \in Requests |-> <<>>]
  /\ seen = [r \in Requests |-> None]
  /\ saves = [r \in Requests |-> 0]
  /\ started = 0

KeyNext ==
  \/ \E s \in Keys : MapStart("mapCategory", s, FALSE)
  \/ \E out \in OracleOutputs(offered["mapCategory"]) :
       OracleReply("mapCategory", out, FALSE)

KeySpec == KeyInit /\ [][KeyNext]_vars

(***************************************************************************)
(* Mapping calls, one after the other, on a server that loaded a snapshot  *)
(* with unresolved child references or with names that are not distinct.   *)
(***************************************************************************)
OddInit ==
  /\ data \in OddSnapshots
  /\ localFile = FileOf(data.version)
  /\ categoryIndex = buildIndices(EmptyMap, data)
  /\ nameIndex = buildNameIndex(EmptyMap, data)
  /\ db = "open"
  /\ rows = <<>>
  /\ now = 0
  /\ lastOp = NoOp
  /\ conversationHistory = <<>>
  /\ pc = [r \in Requests |-> "idle"]
  /\ input = [r \in Requests |-> ""]
  /\ cachedRow = [r \in Requests |-> None]
  /\ cur = [r \in Requests |-> None]
  /\ turnCount = [r \in Requests |-> 0]
  /\ offered = [r \in Requests |-> <<>>]
  /\ sent = [r \in Requests |-> <<>>]
  /\ reply = [r \in Requests |-> <<>>]
  /\ selected = [r \in Requests |-> None]
  /\ result = [r \in Requests |-> None]
  /\ error = [r \in Requests |-> ""]
  /\ calls = [r \in Requests |-> 0]
  /\ transcript = [r \in Requests |-> <<>>]
  /\ seen = [r \in Requests |-> None]
  /\ saves = [r \in Requests |-> 0]
  /\ started = 0

OddSpec == OddInit /\ [][KeyNext]_vars

(***************************************************************************)
(* The two entry points on one cache, every query succeeding.              *)
(***************************************************************************)
SharedNext ==
  \E r \in Requests :
    \/ \E s \in Inputs : MapStart(r, s, FALSE)
    \/ \E out \in OracleOutputs(offered[r]) : OracleReply(r, out, FALSE)

SharedSpec == Init /\ [][SharedNext]_vars

(***************************************************************************)
(* Mapping calls on a store that also gets manual records: saveMapping     *)
(* called with created_by 'manual' by whoever curates the table, between   *)
(* the steps of the calls.                                                 *)
(***************************************************************************)
ManualMappings == {m \in Mappings : m.created_by = "manual"}

ManualNext ==
  \/ \E s \in Inputs : MapStart("mapCategory", s, FALSE)
  \/ \E out \in OracleOutputs(offered["mapCategory"]) :
       OracleReply("mapCategory", out, FALSE)
  \/ \E m \in ManualMappings : CacheSave(m, FALSE)

ManualSpec == Init /\ [][ManualNext]_vars

(***************************************************************************)
(* The server across taxonomy versions.  The loader reads the snapshot     *)
(* once, when server.ts starts; another version is served only by a        *)
(* process started on it.  That process has a new loader, a new mapper     *)
(* with a new Nova client and no call in flight, and connects to the       *)
(* database file the earlier one wrote (CREATE TABLE IF NOT EXISTS keeps   *)
(* the rows).                                                              *)
(***************************************************************************)
Restart(d, conn) ==
  /\ data' = d
  /\ localFile' = FileOf(d.version)
  /\ categoryIndex' = buildIndices(EmptyMap, d)
  /\ nameIndex' = buildNameIndex(EmptyMap, d)
  /\ db' = conn
  /\ lastOp' = NoOp
  /\ conversationHistory' = <<>>
  /\ pc' = [r \in Requests |-> "idle"]
  /\ input' = [r \in Requests |-> ""]
  /\ cachedRow' = [r \in Requests |-> None]
  /\ cur' = [r \in Requests |-> None]
  /\ turnCount' = [r \in Requests |-> 0]
  /\ offered' = [r \in Requests |-> <<>>]
  /\ sent' = [r \in Requests |-> <<>>]
  /\ reply' = [r \in Requests |-> <<>>]
  /\ selected' = [r \in Requests |-> None]
  /\ result' = [r \in Requests |-> None]
  /\ error' = [r \in Requests |-> ""]
  /\ calls' = [r \in Requests |-> 0]
  /\ transcript' = [r \in Requests |-> <<>>]
  /\ seen' = [r \in Requests |-> None]
  /\ saves' = [r \in Requests |-> 0]
  /\ started' = 0
  /\ UNCHANGED <<rows, now>>

VersionNext ==
  \/ \E d \in Snapshots, conn \in {"open", "null"} : Restart(d, conn)
  \/ \E s \in Inputs : MapStart("mapCategory", s, FALSE)
  \/ \E out \in OracleOutputs(offered["mapCategory"]) :
       OracleReply("mapCategory", out, FALSE)

VersionSpec == Init /\ [][VersionNext]_vars

(***************************************************************************)
(* The lookups of the loader, called on a loaded snapshot with ids,        *)
(* queries and limits of the kinds its callers pass (the HTTP layer hands  *)
(* search the q and limit parameters of the request).                      *)
(***************************************************************************)
LookupIds ==
  {"el", GID_PREFIX \o "el", "el-2", "el-1", "ap", "ap-1", "ap-9", "ho", "ho-2", ""}

Queries ==
  {"phone", "Phones", " phones ", "electronics > phones", "o", "home", "Decor",
   "Home Decor", "shoes", "zz", ""}

Limits == {1, 10}

LoaderInit ==
  /\ data \in LoaderSnapshots
  /\ localFile = FileOf(data.version)
  /\ categoryIndex = buildIndices(EmptyMap, data)
  /\ nameIndex = buildNameIndex(EmptyMap, data)
  /\ db = "null"
  /\ rows = <<>>
  /\ now = 0
  /\ lastOp = NoOp
  /\ conversationHistory = <<>>
  /\ pc = [r \in Requests |-> "idle"]
  /\ input = [r \in Requests |-> ""]
  /\ cachedRow = [r \in Requests |-> None]
  /\ cur = [r \in Requests |-> None]
  /\ turnCount = [r \in Requests |-> 0]
  /\ offered = [r \in Requests |-> <<>>]
  /\ sent = [r \in Requests |-> <<>>]
  /\ reply = [r \in Requests |-> <<>>]
  /\ selected = [r \in Requests |-> None]
  /\ result = [r \in Requests |-> None]
  /\ error = [r \in Requests |-> ""]
  /\ calls = [r \in Requests |-> 0]
  /\ transcript = [r \in Requests |-> <<>>]
  /\ seen = [r \in Requests |-> None]
  /\ saves = [r \in Requests |-> 0]
  /\ started = 0

GetChildren(id) ==
  /\ lastOp' = [op |-> "getChildren", key |-> id, mapping |-> None,
                threw |-> FALSE, ok |-> TRUE,
                value |-> getChildren(categoryIndex, id)]
  /\ UNCHANGED <<taxVars, db, rows, now, conversationHistory, reqVars>>

Search(query, limit) ==
  /\ lastOp' = [op |-> "search", key |-> query,
                mapping |-> Some([parentId |-> "", limit |-> limit]),
                threw |-> FALSE, ok |-> TRUE,
                value |-> search(nameIndex, data, query, limit)]
  /\ UNCHANGED <<taxVars, db, rows, now, conversationHistory, reqVars>>

\* The call returns only if getDescendants' walk ends.
SearchWithin(parentId, query, limit) ==
  /\ LET found == searchWithinCategory(categoryIndex, parentId, query, limit)
     IN /\ found.returned
        /\ lastOp' = [op |-> "searchWithinCategory", key |-> query,
                      mapping |-> Some([parentId |-> parentId, limit |-> limit]),
                      threw |-> FALSE, ok |-> TRUE, value |-> found.value]
  /\ UNCHANGED <<taxVars, db, rows, now, conversationHistory, reqVars>>

LoaderNext ==
  \/ \E id \in LookupIds : GetChildren(id)
  \/ \E query \in Queries, limit \in Limits : Search(query, limit)
  \/ \E parentId \in LookupIds, query \in Queries, limit \in Limits :
       SearchWithin(parentId, query, limit)

LoaderSpec == LoaderInit /\ [][LoaderNext]_vars

(***************************************************************************)
(* A loader on which load is called again, with the same or with another   *)
(* snapshot file: load parses the file into data and runs buildIndices on  *)
(* the two maps as they are.                                               *)
(***************************************************************************)
\* The longest list of the name index that the model follows.
MaxListed == 2

Load(d) ==
  /\ data' = d
  /\ categoryIndex' = buildIndices(categoryIndex, d)
  /\ nameIndex' = buildNameIndex(nameIndex, d)
  /\ \A k \in DOMAIN nameIndex' : Len(nameIndex'[k]) <= MaxListed
  /\ localFile' = FileOf(d.version)
  /\ lastOp' = NoOp
  /\ UNCHANGED <<db, rows, now, conversationHistory, reqVars>>

GetCategory(id) ==
  /\ lastOp' = [op |-> "getCategory", key |-> id, mapping |-> None,
                threw |-> FALSE, ok |-> TRUE,
                value |-> getCategory(categoryIndex, id)]
  /\ UNCHANGED <<taxVars, db, rows, now, conversationHistory, reqVars>>

ReloadNext ==
  \/ \E d \in LoaderSnapshots : Load(d)
  \/ \E id \in LookupIds : GetCategory(id)
  \/ \E id \in LookupIds : GetChildren(id)
  \/ \E query \in Queries : Search(query, 10)

ReloadSpec == LoaderInit /\ [][ReloadNext]_vars

(***************************************************************************)
(* The start of server.ts up to the end of ensureTaxonomyData: nothing is  *)
(* loaded or connected yet.  A run of it finds the local file as an        *)
(* earlier run (or the operator) left it.                                  *)
(***************************************************************************)
NoData == [version |-> "unknown", verticals |-> <<>>]

FetchInit ==
  /\ localFile \in LocalFiles
  /\ data = NoData
  /\ categoryIndex = EmptyMap
  /\ nameIndex = EmptyMap
  /\ db = "null"
  /\ rows = <<>>
  /\ now = 0
  /\ lastOp = NoOp
  /\ conversationHistory = <<>>
  /\ pc = [r \in Requests |-> "idle"]
  /\ input = [r \in Requests |-> ""]
  /\ cachedRow = [r \in Requests |-> None]
  /\ cur = [r \in Requests |-> None]
  /\ turnCount = [r \in Requests |-> 0]
  /\ offered = [r \in Requests |-> <<>>]
  /\ sent = [r \in Requests |-> <<>>]
  /\ reply = [r \in Requests |-> <<>>]
  /\ selected = [r \in Requests |-> None]
  /\ result = [r \in Requests |-> None]
  /\ error = [r \in Requests |-> ""]
  /\ calls = [r \in Requests |-> 0]
  /\ transcript = [r \in Requests |-> <<>>]
  /\ seen = [r \in Requests |-> None]
  /\ saves = [r \in Requests |-> 0]
  /\ started = 0

\* ensureTaxonomyData runs; `remote` is what the fetch of getRemoteVersion
\* gives and `download` what the fetch of downloadTaxonomyData gives, if the
\* call gets that far (for a call that does not, one value of `download` stands
\* for all).  writeFile is taken to write the whole text.
EnsureTaxonomyData(remote, download) ==
  /\ LET ensured == ensureTaxonomyData(localFile, remote, download)
     IN /\ download.kind # "unreachable" => ensured.downloaded
        /\ localFile' = ensured.file
        /\ lastOp' = [op |-> "ensureTaxonomyData", key |-> "",
                      mapping |-> Some([local |-> localFile, remote |-> remote,
                                        download |-> IF ensured.downloaded
                                                     THEN Some(download) ELSE None]),
                      threw |-> ensured.threw, ok |-> ~ensured.threw,
                      value |-> Some(ensured.file)]
  /\ UNCHANGED <<data, categoryIndex, nameIndex, db, rows, now,
                 conversationHistory, reqVars>>

FetchNext == \E remote \in Fetches, download \in Fetches :
               EnsureTaxonomyData(remote, download)

FetchSpec == FetchInit /\ [][FetchNext]_vars

(***************************************************************************)
(* The tree invariants of a snapshot, and the depth of the tree.           *)
(***************************************************************************)
\* Ids are unique, every vertical has its root at level 0, and every child
\* reference resolves to a category one level down whose parent is the referrer.
WellFormed(index, d) ==
  LET cats == getAllCategories(d)
      verticals == getVerticals(index, d)
  IN /\ \A i, j \in 1..Len(cats) : cats[i].id = cats[j].id => i = j
     /\ \A i \in 1..Len(verticals) :
          /\ verticals[i].rootCategory # None
          /\ verticals[i].rootCategory[1].level = 0
     /\ \A i \in 1..Len(cats) : \A k \in 1..Len(cats[i].children) :
          LET child == getCategory(index, cats[i].children[k].id)
          IN /\ child # None
             /\ child[1].level = cats[i].level + 1
             /\ child[1].parent_id = Some(cats[i].id)

\* The number of categories on the longest path from `id` down, at most `fuel`.
RECURSIVE Height(_, _, _)
Height(index, id, fuel) ==
  LET children == getChildren(index, id)
      below == {Height(index, children[i].id, fuel - 1) : i \in 1..Len(children)}
  IN IF fuel = 0 THEN 0
     ELSE IF below = {} THEN 1
     ELSE 1 + CHOOSE h \in below : \A g \in below : g <= h

\* The depth D of the tree: the number of levels of its deepest vertical.
TreeDepth(index, d) ==
  LET verticals == getVerticals(index, d)
      heights == {Height(index, verticals[i].rootCategory[1].id,
                         Len(getAllCategories(d))) : i \in 1..Len(verticals)}
  IN CHOOSE h \in heights : \A g \in heights : g <= h

\* The category the walk pointer of request r is at.
Current(r) == getCategory(categoryIndex, cur[r][1])[1]
AtCategory(r) == cur[r] # None /\ getCategory(categoryIndex, cur[r][1]) # None

(***************************************************************************)
(* Claims about the navigation.                                            *)
(***************************************************************************)
\* C1: in a well-formed tree of depth D (D levels of categories on its longest
\* path) a navigation sends at most D requests to the oracle, and each request
\* but the first is sent from one level deeper than the one before: while a
\* request is in flight, the number sent is 1 before a vertical is chosen and
\* the level of the walk pointer plus 2 afterwards.
C1_TurnsWithinDepth ==
  WellFormed(categoryIndex, data) =>
    \A r \in Requests :
      /\ calls[r] <= TreeDepth(categoryIndex, data)
      /\ pc[r] = "awaitOracle" =>
           calls[r] = IF cur[r] = None THEN 1 ELSE Current(r).level + 2

\* A navigation of a well-formed tree that ended at a leaf of the deepest level,
\* after as many requests as the tree has levels.
C1_Witness ==
  /\ WellFormed(categoryIndex, data)
  /\ \E r \in Requests :
       /\ pc[r] = "done"
       /\ AtCategory(r)
       /\ calls[r] = TreeDepth(categoryIndex, data)
       /\ calls[r] = Current(r).level + 1

\* C2: whenever the walk pointer is at a category with no children, the call
\* has ended with that category as its result, confidence "high", and the
\* requests sent to the oracle are those sent before the pointer got there.
C2_LeafEndsNavigation ==
  \A r \in Requests :
    (AtCategory(r) /\ Len(Current(r).children) = 0) =>
      /\ pc[r] = "done"
      /\ result[r] # None
      /\ result[r][1].node_id = ShortId(Current(r).id)
      /\ result[r][1].full_name = Current(r).full_name
      /\ result[r][1].confidence = "high"
      /\ result[r][1].turns = Some(calls[r])
      /\ calls[r] = turnCount[r]

\* A leaf reached below a vertical's root, and a vertical's childless root
\* reached after turn 1.
C2_Witness ==
  /\ \E r \in Requests :
       /\ AtCategory(r) /\ Len(Current(r).children) = 0
       /\ Current(r).level > 0
  /\ \E r \in Requests :
       /\ AtCategory(r) /\ Len(Current(r).children) = 0
       /\ Current(r).level = 0 /\ calls[r] = 1

\* C3: when the oracle's answer at a turn k >= 2 is "Other (use parent
\* category)", the call has ended with the current category, the one whose
\* children were offered, as its result, confidence "medium", and no request
\* was sent after that answer.
C3_OtherEndsAtParent ==
  \A r \in Requests :
    (selected[r] = Some(OTHER_OPTION) /\ turnCount[r] >= 2) =>
      /\ pc[r] = "done"
      /\ AtCategory(r)
      /\ offered[r] = ChildOptions(categoryIndex, cur[r][1])
      /\ result[r] # None
      /\ result[r][1].node_id = ShortId(Current(r).id)
      /\ result[r][1].full_name = Current(r).full_name
      /\ result[r][1].confidence = "medium"
      /\ result[r][1].turns = Some(calls[r])
      /\ calls[r] = turnCount[r]

\* The synthetic option chosen at turn 3, one level below a vertical's root.
C3_Witness ==
  \E r \in Requests :
    /\ selected[r] = Some(OTHER_OPTION)
    /\ turnCount[r] = 3
    /\ AtCategory(r) /\ Current(r).level = 1

\* The name the oracle's output carried for request r, if it carried one.
RepliedName(r) ==
  IF reply[r] # <<>> /\ reply[r][1] # None
     /\ reply[r][1][1].content.json = "object"
  THEN reply[r][1][1].content.category
  ELSE None

\* C4: when the oracle answers with a name that is not among the offered options,
\* the call has failed with an error that names what could not be found; it has
\* no result, the walk pointer is where it was when the options were offered,
\* and no record was written for it.
C4_UnlistedNameIsFatal ==
  \A r \in Requests :
    (RepliedName(r) # None /\ RepliedName(r)[1] \notin OptionNames(offered[r])) =>
      /\ pc[r] = "failed"
      /\ result[r] = None
      /\ saves[r] = 0
      /\ error[r] = IF cur[r] = None
                    THEN "Could not find vertical: " \o RepliedName(r)[1]
                    ELSE "Could not find child category: \"" \o RepliedName(r)[1] \o "\""
      /\ offered[r] = IF cur[r] = None
                      THEN VerticalOptions(categoryIndex, data)
                      ELSE ChildOptions(categoryIndex, cur[r][1])

\* An unlisted name answered at turn 1, and one answered at a later turn.
C4_Witness ==
  /\ \E r \in Requests :
       RepliedName(r) = Some(UNLISTED) /\ turnCount[r] = 1 /\ pc[r] = "failed"
  /\ \E r \in Requests :
       RepliedName(r) = Some(UNLISTED) /\ turnCount[r] >= 2 /\ pc[r] = "failed"

\* C5: what askForSelection returns to the navigator is a member of the option
\* set it was given.
C5_PortReturnsMember ==
  \A r \in Requests :
    selected[r] # None => selected[r][1] \in OptionNames(offered[r])

\* C6: a call whose lookup finds a stored record for its input returns that
\* record's category id, full name and confidence with the cache-hit flag true
\* and no turn count, and sends nothing to the oracle.
C6_CacheHit ==
  \A r \in Requests :
    cachedRow[r] # None =>
      /\ seen[r] # None
      /\ pc[r] = "done"
      /\ result[r] = Some([node_id |-> seen[r][1].shopify_category_id,
                           full_name |-> seen[r][1].shopify_full_name,
                           confidence |-> seen[r][1].confidence,
                           cached |-> TRUE, reasoning |-> "", turns |-> None])
      /\ calls[r] = 0
      /\ turnCount[r] = 0
      /\ sent[r] = <<>>

\* A second call with the input of a first, successful call: a cache hit that
\* returns what the first call stored.
C6_Witness ==
  /\ started = 2
  /\ \E r \in Requests :
       /\ cachedRow[r] # None
       /\ pc[r] = "done"
       /\ result[r][1].cached
       /\ \E i \in 1..Len(rows) :
            /\ rows[i].amazon_category = input[r]
            /\ rows[i].shopify_category_id = result[r][1].node_id
            /\ rows[i].created_by = "llm"

\* The stored row of a key (used where the key has exactly one row).
RowAt(table, key) == table[CHOOSE i \in RowsOf(table, key) : TRUE]

\* C7: a lookup that directly follows a successful upsert of the same key
\* returns the upserted category id, full name, confidence and provenance.
C7_LookupAfterUpsert ==
  [][(/\ lastOp.op = "saveMapping" /\ lastOp.ok
      /\ lastOp'.op = "getMapping" /\ lastOp'.ok
      /\ lastOp'.key = lastOp.key) =>
       /\ lastOp'.value # None
       /\ lastOp'.value[1].shopify_category_id = lastOp.mapping[1].shopify_category_id
       /\ lastOp'.value[1].shopify_full_name = lastOp.mapping[1].shopify_full_name
       /\ lastOp'.value[1].confidence = lastOp.mapping[1].confidence
       /\ lastOp'.value[1].created_by = lastOp.mapping[1].created_by]_vars

\* C8: the store never holds two records of one key; an upsert of a key that
\* has a record adds no row, and a record's created-at time never changes
\* while the record exists.
C8_OneRecordPerKey ==
  [][/\ \A k \in Inputs : Cardinality(RowsOf(rows', k)) <= 1
     /\ \A k \in Inputs :
          (RowsOf(rows, k) # {} /\ RowsOf(rows', k) # {}) =>
            RowAt(rows', k).created_at = RowAt(rows, k).created_at
     /\ (lastOp'.op = "saveMapping" /\ RowsOf(rows, lastOp'.key) # {}) =>
          Len(rows') = Len(rows)]_vars

\* An upsert has just rewritten a record that was created at an earlier time.
C8_Witness ==
  /\ lastOp.op = "saveMapping" /\ lastOp.ok
  /\ Cardinality(RowsOf(rows, lastOp.key)) = 1
  /\ RowAt(rows, lastOp.key).updated_at > RowAt(rows, lastOp.key).created_at

\* C9: a successful upsert of a key that has a record leaves the record with
\* the upsert's category id, gid, full name, confidence and provenance, keeps
\* its created-at time and sets its updated-at time to the time of the upsert.
C9_UpsertOverwrites ==
  [][(/\ lastOp'.op = "saveMapping" /\ lastOp'.ok
      /\ rows' # rows \/ lastOp' # lastOp
      /\ RowsOf(rows, lastOp'.key) # {}) =>
       /\ RowsOf(rows', lastOp'.key) # {}
       /\ RowAt(rows', lastOp'.key).shopify_category_id = lastOp'.mapping[1].shopify_category_id
       /\ RowAt(rows', lastOp'.key).shopify_category_gid = lastOp'.mapping[1].shopify_category_gid
       /\ RowAt(rows', lastOp'.key).shopify_full_name = lastOp'.mapping[1].shopify_full_name
       /\ RowAt(rows', lastOp'.key).confidence = lastOp'.mapping[1].confidence
       /\ RowAt(rows', lastOp'.key).created_by = lastOp'.mapping[1].created_by
       /\ RowAt(rows', lastOp'.key).created_at = RowAt(rows, lastOp'.key).created_at
       /\ RowAt(rows', lastOp'.key).updated_at = now]_vars

\* C10: the messages sent to the oracle with a turn of a navigation are that
\* navigation's own prompts and answers so far, whatever a navigation for
\* another input string did in the meantime.
C10_OwnContextOnly ==
  \A r \in Requests :
    (/\ pc[r] = "awaitOracle"
     /\ \A q \in Requests \ {r} : pc[q] # "idle" => input[q] # input[r]) =>
      sent[r] = transcript[r]

(***************************************************************************)
(* Claims about failures of the cache and of the oracle.                   *)
(***************************************************************************)
\* The navigation of request r has produced a terminal selection: it got an
\* answer that took it to a category without children, or the synthetic option
\* at a category whose children were offered.
TerminalSelection(r) ==
  /\ selected[r] # None
  /\ AtCategory(r)
  /\ \/ Len(Current(r).children) = 0
     \/ selected[r] = Some(OTHER_OPTION)

\* C11: when the upsert that follows a terminal selection fails, the call still
\* ends without an error and returns that selection: its category id, full
\* name, confidence, turn count, and the cache-hit flag false.
C11_SaveFailureKeepsResult ==
  \A r \in Requests :
    (TerminalSelection(r) /\ saves[r] = 0) =>
      /\ pc[r] = "done"
      /\ error[r] = ""
      /\ result[r] # None
      /\ result[r][1].node_id = ShortId(Current(r).id)
      /\ result[r][1].full_name = Current(r).full_name
      /\ result[r][1].confidence =
           IF Len(Current(r).children) = 0 THEN "high" ELSE "medium"
      /\ result[r][1].turns = Some(turnCount[r])
      /\ result[r][1].cached = FALSE

\* A navigation that ended at a leaf and one that ended at a parent, each with
\* its upsert failed and nothing stored for its input.
C11_Witness ==
  /\ \E r \in Requests :
       /\ TerminalSelection(r) /\ saves[r] = 0
       /\ Len(Current(r).children) = 0
       /\ RowsOf(rows, input[r]) = {}
  /\ \E r \in Requests :
       /\ TerminalSelection(r) /\ saves[r] = 0
       /\ selected[r] = Some(OTHER_OPTION)
       /\ RowsOf(rows, input[r]) = {}

\* C12: a mapping call does not fail because the cache store is unavailable:
\* no call ends with the store's "Database not connected" error.
C12_OutageStillMaps ==
  \A r \in Requests :
    pc[r] = "failed" => error[r] # "Database not connected"

\* C13: the navigator has a ceiling on its turns: a navigation sends at most
\* one request for the verticals and one per category of the snapshot, so on a
\* snapshot whose child references lead back to an ancestor it stops instead
\* of offering the children of a category a second time.
C13_TurnCeiling ==
  \A r \in Requests :
    calls[r] <= Len(getAllCategories(data)) + 1

(***************************************************************************)
(* Claims about what a navigation reports and stores.                      *)
(***************************************************************************)
\* C14: the turn count returned with a navigation's result is the number of
\* requests the navigation sent to the oracle, all of them answered; in a
\* well-formed tree that is the result's level plus 1 for a leaf and the
\* result's level plus 2 for a parent fallback.
C14_TurnsReported ==
  \A r \in Requests :
    (pc[r] = "done" /\ cachedRow[r] = None /\ result[r] # None) =>
      /\ result[r][1].turns = Some(calls[r])
      /\ (WellFormed(categoryIndex, data) /\ AtCategory(r)) =>
           calls[r] = Current(r).level +
                        (IF result[r][1].confidence = "high" THEN 1 ELSE 2)

\* The two two-level scenarios: the leaf Computers under Electronics, and the
\* parent fallback at Electronics, each after 2 turns.
C14_Witness ==
  /\ \E r \in Requests :
       /\ pc[r] = "done" /\ result[r] # None
       /\ result[r][1].node_id = "el-1" /\ result[r][1].confidence = "high"
       /\ result[r][1].turns = Some(2)
  /\ \E r \in Requests :
       /\ pc[r] = "done" /\ result[r] # None
       /\ result[r][1].node_id = "el" /\ result[r][1].confidence = "medium"
       /\ result[r][1].turns = Some(2)

C15_ExactKey ==
  \A r \in Requests :
    /\ cachedRow[r] # None =>
         /\ seen[r] # None
         /\ seen[r][1].amazon_category = input[r]
    /\ (pc[r] # "idle" /\ cachedRow[r] = None) => seen[r] = None
    /\ saves[r] > 0 => \E i \in 1..Len(rows) : rows[i].amazon_category = input[r]

\* With a record stored under "tv", a call for "TV" missed and stored its own
\* record, and the next call, for "tv ", missed again and went to the oracle.
C15_Witness ==
  /\ \E i \in 1..Len(rows) : rows[i].amazon_category = "tv"
  /\ \E i \in 1..Len(rows) : rows[i].amazon_category = "TV"
  /\ \E r \in Requests : input[r] = "tv " /\ cachedRow[r] = None /\ calls[r] >= 1

\* C17: every upsert a mapping call executes leaves exactly one record under
\* its key, and that record's category id, gid, full name and confidence are
\* those of this upsert, whatever another call for the same input stored
\* before: the record is that of the upsert executed last.
C17_LastWriteWins ==
  [][\A r \in Requests :
       saves'[r] = saves[r] + 1 =>
         /\ Cardinality(RowsOf(rows', input[r])) = 1
         /\ RowAt(rows', input[r]).shopify_category_id = result'[r][1].node_id
         /\ RowAt(rows', input[r]).shopify_category_gid =
              GID_PREFIX \o result'[r][1].node_id
         /\ RowAt(rows', input[r]).shopify_full_name = result'[r][1].full_name
         /\ RowAt(rows', input[r]).confidence = result'[r][1].confidence]_vars

\* Two calls for the same input both missed, navigated to different categories
\* and stored: one record, that of one of the two.
C17_Witness ==
  /\ input["mapCategory"] = input["mapProduct"]
  /\ \A r \in Requests : pc[r] = "done" /\ cachedRow[r] = None /\ saves[r] = 1
  /\ result["mapCategory"][1].node_id # result["mapProduct"][1].node_id
  /\ Cardinality(RowsOf(rows, input["mapCategory"])) = 1
  /\ \E r \in Requests :
       RowAt(rows, input[r]).shopify_category_id = result[r][1].node_id

\* The answer that request r's pending call to the oracle gets in this step:
\* the assistant message added to its transcript, if one is.
AnswerInStep(r) ==
  LET n == Len(transcript[r])
  IN IF Len(transcript'[r]) > n /\ transcript'[r][n + 1].role = "assistant"
     THEN Some(transcript'[r][n + 1])
     ELSE None

\* The answer names no member of the options that were offered.
Unresolved(answer, options) ==
  \/ answer = None
  \/ answer[1].content.json # "object"
  \/ answer[1].content.category = None
  \/ answer[1].content.category[1] \notin OptionNames(options)

\* C18: the step in which a pending oracle call of a request ends without an
\* answer that names an offered option fails the request: no further request
\* is sent to the oracle for it, it has no result, and the cache records are
\* what they were.
C18_UnresolvedAborts ==
  [][\A r \in Requests :
       (/\ pc[r] = "awaitOracle"
        /\ pc'[r] # pc[r] \/ transcript'[r] # transcript[r]
        /\ Unresolved(AnswerInStep(r), offered[r])) =>
         /\ pc'[r] = "failed"
         /\ calls'[r] = calls[r]
         /\ sent'[r] = sent[r]
         /\ result'[r] = None
         /\ saves'[r] = 0
         /\ rows' = rows]_vars

\* A request failed on an unlisted child name at turn 2 and another on an
\* output without a structured answer; neither has a record.
C18_Witness ==
  /\ \E r \in Requests :
       /\ pc[r] = "failed" /\ calls[r] = 2
       /\ error[r] = "Could not find child category: \"" \o UNLISTED \o "\""
       /\ RowsOf(rows, input[r]) = {}
  /\ \E r \in Requests :
       /\ pc[r] = "failed" /\ calls[r] >= 1
       /\ error[r] = "No structured response received from Nova"
       /\ RowsOf(rows, input[r]) = {}

\* C19: the step in which a navigation fails changes nothing of another
\* navigation in flight: not its walk pointer, its turn count or the
\* conversation it will send with its next request, and not the taxonomy index
\* or the cache records.
C19_FailureIsLocal ==
  [][\A r \in Requests :
       (pc[r] = "awaitOracle" /\ pc'[r] = "failed") =>
         /\ categoryIndex' = categoryIndex
         /\ data' = data
         /\ rows' = rows
         /\ \A q \in Requests \ {r} :
              pc[q] = "awaitOracle" =>
                /\ pc'[q] = pc[q]
                /\ cur'[q] = cur[q]
                /\ turnCount'[q] = turnCount[q]
                /\ conversationHistory' = conversationHistory]_vars

\* C20: no step of a mapping call removes a record: a key that has a record
\* before the step has one after it.
C20_KeysOnlyGrow ==
  [][\A i \in 1..Len(rows) : RowsOf(rows', rows[i].amazon_category) # {}]_vars

\* A call stored a record while a second call for the same input was in
\* flight; the second call failed, and the record is there.
C20_Witness ==
  \E a, b \in Requests :
    /\ a # b /\ input[a] = input[b]
    /\ pc[a] = "done" /\ saves[a] = 1
    /\ pc[b] = "failed" /\ calls[b] >= 1
    /\ RowsOf(rows, input[a]) # {}

\* C21: the category a mapping call returns belongs to the taxonomy version
\* that is loaded when it returns: its id resolves in the loader's index, also
\* when the key's record was stored under an earlier version.
C21_ResultInLoadedVersion ==
  \A r \in Requests :
    (pc[r] = "done" /\ result[r] # None) =>
      getCategory(categoryIndex, result[r][1].node_id) # None

\* The rows of a table stored under other keys than `key`, in order.
RowsExcept(table, key) ==
  SelectSeq(table, LAMBDA row : row.amazon_category # key)

\* C22: the cache lookup comes before any request to the oracle and a request is
\* sent only after a lookup that returned nothing; a call that hit sends no
\* request and the step of its lookup writes nothing; the records change only
\* in the step in which a call that missed ends with its result, after a
\* terminal selection: that step executes one upsert, which writes the one
\* record of the call's key with the returned category, or fails and writes
\* nothing; no call writes more than once.
C22_LookupThenOneWrite ==
  [][/\ started' # started => rows' = rows
     /\ \A r \in Requests :
          /\ cachedRow'[r] # None => calls'[r] = 0 /\ saves'[r] = 0 /\ sent'[r] = <<>>
          /\ calls'[r] > 0 => cachedRow'[r] = None
          /\ saves'[r] <= 1
          /\ pc'[r] \in {"awaitOracle", "failed"} => saves'[r] = 0
          /\ (pc[r] = "awaitOracle" /\ pc'[r] = "done") =>
               /\ result'[r] # None
               /\ selected'[r] # None
               /\ cur'[r] # None /\ getCategory(categoryIndex, cur'[r][1]) # None
               /\ \/ Len(getCategory(categoryIndex, cur'[r][1])[1].children) = 0
                  \/ selected'[r] = Some(OTHER_OPTION)
               /\ RowsExcept(rows', input[r]) = RowsExcept(rows, input[r])
               /\ \/ saves'[r] = 0 /\ rows' = rows
                  \/ /\ saves'[r] = 1
                     /\ Cardinality(RowsOf(rows', input[r])) = 1
                     /\ RowAt(rows', input[r]).shopify_category_id =
                          result'[r][1].node_id
     /\ rows' # rows =>
          \E r \in Requests :
            pc[r] = "awaitOracle" /\ pc'[r] = "done" /\ saves'[r] = saves[r] + 1]_vars

\* One call hit the record that an earlier call, which had missed, navigated to
\* a terminal selection and written: the earlier call sent requests and wrote
\* once, the later one did neither.
C22_Witness ==
  \E a, b \in Requests :
    /\ a # b /\ input[a] = input[b]
    /\ pc[a] = "done" /\ cachedRow[a] = None /\ calls[a] >= 1 /\ saves[a] = 1
    /\ TerminalSelection(a)
    /\ pc[b] = "done" /\ cachedRow[b] # None /\ calls[b] = 0 /\ saves[b] = 0
    /\ Cardinality(RowsOf(rows, input[a])) = 1

\* C23: the first request of every navigation carries one message, the
\* first-turn prompt for the navigation's input over the verticals: nothing of
\* an earlier navigation, however that ended, so that a retry sends what a
\* first attempt with the same input sends.
C23_FirstTurnContextIsFresh ==
  \A r \in Requests :
    (pc[r] = "awaitOracle" /\ calls[r] = 1) =>
      /\ sent[r] = <<[role |-> "user",
                      content |-> [query |-> input[r],
                                   options |-> VerticalOptions(categoryIndex, data),
                                   level |-> "top-level category"]]>>
      /\ turnCount[r] = 1

\* A second navigation has sent its first request after a first one, which had
\* sent at least one request on the same client, ended without a record.
C23_Witness ==
  /\ started = 2 /\ db = "open" /\ rows = <<>>
  /\ \E r \in Requests :
       /\ pc[r] = "awaitOracle" /\ calls[r] = 1
       /\ Len(conversationHistory) = 1
       /\ \A q \in Requests \ {r} : pc[q] = "idle"

\* C24: when no navigation is in flight, the oracle client holds no message of
\* a navigation: its conversation history is empty.
C24_NoTranscriptAtRest ==
  (\A r \in Requests : pc[r] # "awaitOracle") => conversationHistory = <<>>

\* C25: getChildren(id) returns, for an id the index does not hold, the empty
\* list, and otherwise the categories of those references of the category's
\* children list that resolve in the index, in the order of the list; it does
\* not raise.
C25_ChildrenResolvedInOrder ==
  lastOp.op = "getChildren" =>
    /\ ~lastOp.threw
    /\ IF lastOp.key \notin DOMAIN categoryIndex THEN lastOp.value = <<>>
       ELSE LET refs == categoryIndex[lastOp.key].children
                kept == SelectSeq(refs, LAMBDA ref : ref.id \in DOMAIN categoryIndex)
            IN lastOp.value = [i \in 1..Len(kept) |-> categoryIndex[kept[i].id]]

\* getChildren of a category whose second of three references does not
\* resolve: the first and the third, in the order of the list (which is not
\* the alphabetical one).
C25_Witness ==
  /\ lastOp.op = "getChildren" /\ lastOp.key = "ho"
  /\ "ho" \in DOMAIN categoryIndex
  /\ Len(categoryIndex["ho"].children) = 3
  /\ getCategory(categoryIndex, categoryIndex["ho"].children[2].id) = None
  /\ Len(lastOp.value) = 2
  /\ lastOp.value[1].name = "Home Decor" /\ lastOp.value[2].name = "Decor"

\* C26: every result of search(text, limit) has the score of its kind of match
\* with the normalized query: 100 when the lower-cased name or full name equals
\* it; otherwise 80 when the name starts with it; otherwise 70 or 75 when the
\* full name holds it right after a " > " or ends with it; otherwise 50.
C26_SearchScores ==
  lastOp.op = "search" =>
    LET queryLower == trim(toLowerCase(lastOp.key))
    IN \A i \in 1..Len(lastOp.value) :
         LET nameLower == toLowerCase(lastOp.value[i].category.name)
             fullNameLower == toLowerCase(lastOp.value[i].category.full_name)
             score == lastOp.value[i].score
         IN IF nameLower = queryLower \/ fullNameLower = queryLower
            THEN score = 100
            ELSE IF startsWith(nameLower, queryLower)
            THEN score = 80
            ELSE IF \/ includes(fullNameLower, " > " \o queryLower)
                    \/ endsWith(fullNameLower, queryLower)
            THEN score \in {70, 75}
            ELSE score = 50

\* The ids of the categories below a category: its resolved children, theirs,
\* and so on.
RECURSIVE Below(_, _, _)
Below(index, ids, n) ==
  IF n = 0 THEN ids
  ELSE Below(index,
             ids \cup (UNION {{index[id].children[k].id :
                                   k \in 1..Len(index[id].children)} : id \in ids}
                        \cap DOMAIN index),
             n - 1)

\* C27: every result of searchWithinCategory(rootId, text) is a category below
\* the root, and its score is the score search(text) gives the same category.
C27_WithinScoresAsSearch ==
  lastOp.op = "searchWithinCategory" =>
    LET rootId == lastOp.mapping[1].parentId
        everywhere == search(nameIndex, data, lastOp.key,
                             2 * Len(getAllCategories(data)))
    IN \A i \in 1..Len(lastOp.value) :
         /\ lastOp.value[i].category.id \in
              Below(categoryIndex,
                    {categoryIndex[rootId].children[k].id :
                       k \in 1..Len(categoryIndex[rootId].children)}
                      \cap DOMAIN categoryIndex,
                    Cardinality(DOMAIN categoryIndex))
         /\ \E j \in 1..Len(everywhere) :
              /\ everywhere[j].category.id = lastOp.value[i].category.id
              /\ everywhere[j].score = lastOp.value[i].score

C29_OptionsPresented ==
  \A r \in Requests :
    pc[r] = "awaitOracle" =>
      IF cur[r] = None
      THEN /\ turnCount[r] = 1
           /\ Len(offered[r]) = Len(data.verticals)
           /\ \A i \in 1..Len(offered[r]) :
                offered[r][i] = [name |-> data.verticals[i].name, isLeaf |-> FALSE]
      ELSE LET refs == categoryIndex[cur[r][1]].children
               kept == SelectSeq(refs, LAMBDA ref : ref.id \in DOMAIN categoryIndex)
               n == Len(kept)
           IN /\ turnCount[r] >= 2
              /\ Len(offered[r]) = n + 1
              /\ \A i \in 1..n :
                   /\ offered[r][i].name = categoryIndex[kept[i].id].name
                   /\ offered[r][i].isLeaf =
                        (Len(categoryIndex[kept[i].id].children) = 0)
              /\ offered[r][n + 1] = [name |-> OTHER_OPTION, isLeaf |-> TRUE]

\* One request waits for the answer to its turn 1 over both verticals; another
\* waits at turn 2 on a category of which one of two child references
\* resolves: that child, not a leaf, and the synthetic option.
C29_Witness ==
  \E a, b \in Requests :
    /\ pc[a] = "awaitOracle" /\ cur[a] = None /\ Len(offered[a]) = 2
    /\ pc[b] = "awaitOracle" /\ cur[b] # None /\ turnCount[b] = 2
    /\ Len(categoryIndex[cur[b][1]].children) = 2
    /\ offered[b] = <<[name |-> "Shoes", isLeaf |-> FALSE],
                      [name |-> OTHER_OPTION, isLeaf |-> TRUE]>>

\* The answer of this step names a vertical of the snapshot whose root category
\* is not in the index.
NamesRootlessVertical(answer) ==
  /\ answer # None
  /\ answer[1].content.json = "object"
  /\ answer[1].content.category # None
  /\ LET vertical == FindByName(data.verticals, answer[1].content.category[1])
     IN /\ vertical # None
        /\ (GID_PREFIX \o vertical[1].prefix) \notin DOMAIN categoryIndex

\* C30: the step in which a request's turn 1 is answered with a vertical that
\* has no root category in the index, and any step of a request whose current
\* category id is not in the index, ends the request with an error: it has no
\* result, sends nothing more and the cache records are what they were; and
\* the head of the walk's loop, given an id that is not in the index, ends in
\* an error rather than a result or a question.
C30_BrokenWalkIsFatal ==
  [][/\ \A r \in Requests :
          (/\ pc[r] = "awaitOracle"
           /\ pc'[r] # pc[r] \/ transcript'[r] # transcript[r]
           /\ \/ cur[r] = None /\ NamesRootlessVertical(AnswerInStep(r))
              \/ cur[r] # None /\ getCategory(categoryIndex, cur[r][1]) = None) =>
            /\ pc'[r] = "failed"
            /\ error'[r] # ""
            /\ result'[r] = None
            /\ calls'[r] = calls[r]
            /\ saves'[r] = 0
            /\ rows' = rows
     /\ \A id \in LookupIds, t \in 1..MaxTurns :
          getCategory(categoryIndex, id) = None =>
            /\ LoopTop(categoryIndex, id, t).kind = "error"
            /\ LoopTop(categoryIndex, id, t).result = None]_vars

\* A request whose turn 1 was answered with the vertical Ghost, which has no
\* root category: failed after its one request, without result or record.
C30_Witness ==
  \E r \in Requests :
    /\ pc[r] = "failed" /\ calls[r] = 1 /\ cur[r] = None
    /\ error[r] = "Could not find vertical: Ghost"
    /\ FindByName(data.verticals, "Ghost") # None
    /\ result[r] = None /\ saves[r] = 0
    /\ RowsOf(rows, input[r]) = {}

\* The ids, in gid and in short form, of the categories of a snapshot.
IdsOf(d) ==
  LET cats == getAllCategories(d)
  IN {cats[i].id : i \in 1..Len(cats)} \cup {ShortId(cats[i].id) : i \in 1..Len(cats)}

\* C31: what the lookups of the loader return is of the snapshot loaded last:
\* getCategory finds only ids of that snapshot, getChildren returns only
\* categories of it, and search returns only categories of it and none of
\* them twice.
C31_LookupsReflectLoadedSnapshot ==
  /\ lastOp.op = "getCategory" =>
       (lastOp.value # None => lastOp.key \in IdsOf(data))
  /\ lastOp.op = "getChildren" =>
       \A i \in 1..Len(lastOp.value) : lastOp.value[i].id \in IdsOf(data)
  /\ lastOp.op = "search" =>
       /\ \A i \in 1..Len(lastOp.value) : lastOp.value[i].category.id \in IdsOf(data)
       /\ \A i, j \in 1..Len(lastOp.value) :
            lastOp.value[i].category.id = lastOp.value[j].category.id => i = j

\* The ids that the child references of a category hold.
ChildRefIds(index, id) ==
  {index[id].children[k].id : k \in 1..Len(index[id].children)}

\* The id of the root category of the vertical that request r's first answer
\* named (None if it has no such answer or the snapshot no such vertical).
ChosenRoot(r) ==
  IF Len(transcript[r]) < 2 \/ transcript[r][2].role # "assistant"
     \/ transcript[r][2].content.category = None
  THEN None
  ELSE LET vertical == FindByName(data.verticals,
                                  transcript[r][2].content.category[1])
       IN IF vertical = None THEN None ELSE Some(GID_PREFIX \o vertical[1].prefix)

\* C32: the walk pointer of a navigation is set first to the root category of
\* the vertical named by the answer to turn 1, and every later change moves it
\* to a category that a child reference of the category it pointed to names;
\* the result a navigation returns has the id, without the gid prefix, and the
\* full name of the category the pointer is at, which is the chosen vertical's
\* root or lies below it.
C32_ResultReachedByChildSteps ==
  [][\A r \in Requests :
       pc[r] = "awaitOracle" =>
         /\ (cur[r] = None /\ cur'[r] # None) =>
              /\ ChosenRoot(r)' # None
              /\ cur'[r] = ChosenRoot(r)'
         /\ (cur[r] # None /\ cur'[r] # cur[r]) =>
              /\ cur'[r] # None
              /\ cur'[r][1] \in ChildRefIds(categoryIndex, cur[r][1])
         /\ pc'[r] = "done" =>
              /\ cur'[r] # None /\ ChosenRoot(r)' # None
              /\ cur'[r][1] \in DOMAIN categoryIndex
              /\ result'[r][1].node_id = ShortId(categoryIndex[cur'[r][1]].id)
              /\ result'[r][1].full_name = categoryIndex[cur'[r][1]].full_name
              /\ cur'[r][1] \in
                   Below(categoryIndex, {ChosenRoot(r)'[1]},
                         Cardinality(DOMAIN categoryIndex))]_vars

\* A navigation ended two child steps below the root of the vertical its first
\* answer named, and returned that category.
C32_Witness ==
  \E r \in Requests :
    /\ pc[r] = "done" /\ cachedRow[r] = None /\ result[r] # None
    /\ ChosenRoot(r) = Some(GID_PREFIX \o "el")
    /\ cur[r] = Some(GID_PREFIX \o "el-2-1")
    /\ result[r][1].node_id = "el-2-1"
    /\ result[r][1].full_name = "Electronics > Phones > Smartphones"
    /\ result[r][1].turns = Some(3)

\* C33: a request that waits for the oracle's answer at a turn after the first
\* has offered at least one child of the current category besides the
\* synthetic option.
C33_ChildOffered ==
  \A r \in Requests :
    (pc[r] = "awaitOracle" /\ cur[r] # None) =>
      /\ Len(offered[r]) >= 2
      /\ \E i \in 1..(Len(offered[r]) - 1), k \in DOMAIN categoryIndex :
           /\ k \in ChildRefIds(categoryIndex, cur[r][1])
           /\ categoryIndex[k].name = offered[r][i].name

\* C34: at a turn after the first, every resolved child of the current category
\* can be selected: one of the offered names, given as the answer, moves the
\* walk pointer to that child.
C34_EveryChildSelectable ==
  \A r \in Requests :
    (pc[r] = "awaitOracle" /\ cur[r] # None) =>
      LET children == getChildren(categoryIndex, cur[r][1])
      IN \A i \in 1..Len(children) :
           \E name \in OptionNames(offered[r]) :
             AfterSelection(categoryIndex, data, cur[r], turnCount[r], name).cur
               = Some(children[i].id)

\* C35: a record whose provenance is manual holds the category id, the full
\* name and the confidence of the latest manual upsert of its key.
C35_ManualRecordKept ==
  \A i \in 1..Len(rows) :
    (/\ rows[i].created_by = "manual"
     /\ lastOp.op = "saveMapping" /\ lastOp.ok
     /\ lastOp.key = rows[i].amazon_category) =>
      /\ rows[i].shopify_category_id = lastOp.mapping[1].shopify_category_id
      /\ rows[i].shopify_full_name = lastOp.mapping[1].shopify_full_name
      /\ rows[i].confidence = lastOp.mapping[1].confidence

\* C36: mapCategory and mapProduct share one cache key space: a call of one
\* entry point with a string for which the other entry point has stored a
\* record is a cache hit, returns that record and asks the oracle nothing.
C36_SharedKeySpace ==
  [][\A r \in Requests, q \in Requests :
       (/\ r # q
        /\ started' = started + 1
        /\ saves[q] >= 1 /\ saves'[q] >= 1
        /\ input'[r] = input[q]) =>
         /\ pc'[r] = "done"
         /\ calls'[r] = 0
         /\ conversationHistory' = conversationHistory
         /\ rows' = rows
         /\ RowsOf(rows, input[q]) # {}
         /\ LET row == RowAt(rows, input[q])
            IN result'[r] = Some([node_id |-> row.shopify_category_id,
                                  confidence |-> row.confidence,
                                  full_name |-> row.shopify_full_name,
                                  reasoning |-> "", cached |-> TRUE,
                                  turns |-> None])]_vars

C36_Witness ==
  \E r \in Requests, q \in Requests :
    /\ r # q
    /\ pc[q] = "done" /\ saves[q] = 1
    /\ pc[r] = "done" /\ input[r] = input[q]
    /\ cachedRow[r] # None /\ calls[r] = 0
    /\ result[r] # None /\ result[r][1].cached
    /\ result[r][1].node_id = result[q][1].node_id

====
